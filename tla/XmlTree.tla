------------------------------- MODULE XmlTree -------------------------------
(***************************************************************************)
(* The document of tinyxml2: nodes linked to their parent, first and last  *)
(* child and siblings, in memory that four pools hand out and take back.   *)
(* Every operation maps a document to the next; a node is known by its     *)
(* pool and its place there, which is used again after the node is gone.   *)
(***************************************************************************)
EXTENDS XmlValues

CONSTANT ItemsPerBlock   \* ITEMS_PER_BLOCK of MemPoolT

VARIABLES
  tree,      \* nodes and pools
  error      \* _errorID

treeVars == <<tree, error>>

Null == <<>>
Doc == <<"document", 0>>
Pools == {"element", "text", "comment", "attribute"}

\* What ToElement, ToText and the others tell apart.
Kinds == {"document", "element", "text", "comment", "declaration", "unknown"}

\* Comments, declarations and unknowns have the same size, and share a pool.
PoolOf(kind) == IF kind \in {"element", "text"} THEN kind ELSE "comment"

-----------------------------------------------------------------------------
(* MemPoolT. *)

EmptyPool == [free |-> <<>>, blocks |-> 0, current |-> 0, untracked |-> 0]

\* The free list, a block more of it if it is empty.
FreeItems(pool) ==
  IF pool.free # <<>> THEN pool.free
  ELSE [i \in 1..ItemsPerBlock |-> pool.blocks * ItemsPerBlock + i]

Alloc(T, pool) ==
  [T EXCEPT !.pools[pool] =
     [free |-> Tail(FreeItems(@)), blocks |-> IF @.free = <<>> THEN @.blocks + 1 ELSE @.blocks,
      current |-> @.current + 1, untracked |-> @.untracked + 1]]

NextItem(T, pool) == <<pool, Head(FreeItems(T.pools[pool]))>>

Free(T, item) ==
  [T EXCEPT !.pools[item[1]].free = <<item[2]>> \o @, !.pools[item[1]].current = @ - 1]

SetTracked(T, pool) == [T EXCEPT !.pools[pool].untracked = @ - 1]

\* Every pool's Clear.
ClearPools(T) == [T EXCEPT !.pools = [p \in Pools |-> EmptyPool]]

-----------------------------------------------------------------------------
(* Nodes and their links. *)

Node(kind, value, cdata) ==
  [kind |-> kind, value |-> value, cdata |-> cdata, attrs |-> <<>>,
   parent |-> Null, first |-> Null, last |-> Null, prev |-> Null, next |-> Null]

EmptyDocument ==
  [nodes |-> (Doc :> Node("document", <<>>, FALSE)), pools |-> [p \in Pools |-> EmptyPool]]

\* NewElement, NewText and the others; Identify makes nodes in the same way.
NewId(T, kind) == NextItem(T, PoolOf(kind))
New(T, kind, value, cdata) ==
  [Alloc(T, PoolOf(kind)) EXCEPT !.nodes = (NewId(T, kind) :> Node(kind, value, cdata)) @@ @]

SetValue(T, n, value) == [T EXCEPT !.nodes[n].value = value]

\* A write through a pointer that may be null.
Put(nodes, n, field, x) == IF n = Null THEN nodes ELSE [nodes EXCEPT ![n][field] = x]

\* Mutant: the last child is not set.
UnlinkKeepsLast(T, child) ==
  LET c == T.nodes[child]
      up == T.nodes[c.parent]
      nodes1 == IF child = up.first THEN Put(T.nodes, c.parent, "first", c.next) ELSE T.nodes
      nodes3 == Put(nodes1, c.prev, "next", c.next)
      nodes4 == Put(nodes3, c.next, "prev", c.prev)
  IN [T EXCEPT !.nodes = Put(nodes4, child, "parent", Null)]

\* The child keeps its own links to its siblings.
Unlink(T, child) ==
  LET c == T.nodes[child]
      up == T.nodes[c.parent]
      nodes1 == IF child = up.first THEN Put(T.nodes, c.parent, "first", c.next) ELSE T.nodes
      nodes2 == IF child = up.last THEN Put(nodes1, c.parent, "last", c.prev) ELSE nodes1
      nodes3 == Put(nodes2, c.prev, "next", c.next)
      nodes4 == Put(nodes3, c.next, "prev", c.prev)
  IN [T EXCEPT !.nodes = Put(nodes4, child, "parent", Null)]

FreeAttribute(T, a) == Free(T, <<"attribute", a.item>>)
FreeAttributes(T, attrs) == FoldLeft(FreeAttribute, T, attrs)

\* ~XMLElement frees the attributes, ~XMLNode the children, first to last.
RECURSIVE Destroy(_, _), DeleteNode(_, _), DeleteChildren(_, _)
Destroy(T, n) ==
  LET T1 == DeleteChildren(FreeAttributes(T, T.nodes[n].attrs), n)
  IN IF T1.nodes[n].parent = Null THEN T1 ELSE Unlink(T1, n)
DeleteNode(T, n) == Free([Destroy(T, n) EXCEPT !.nodes = [m \in DOMAIN @ \ {n} |-> @[m]]], n)
DeleteChildren(T, n) ==
  LET child == T.nodes[n].first
  IN IF child = Null THEN [T EXCEPT !.nodes[n].last = Null]
     ELSE DeleteChildren(DeleteNode(Unlink(T, child), child), n)

\* XMLDocument::DeleteNode: in the tree, or never put there.
DeleteAnyNode(T, n) ==
  IF T.nodes[n].parent # Null THEN DeleteNode(Unlink(T, n), n)
  ELSE DeleteNode(SetTracked(T, n[1]), n)

InsertChildPreamble(T, n) == IF T.nodes[n].parent # Null THEN Unlink(T, n) ELSE SetTracked(T, n[1])

InsertEndChild(T, up, n) ==
  LET T1 == InsertChildPreamble(T, n)
      last == T1.nodes[up].last
      nodes1 == Put(Put(Put(T1.nodes, last, "next", n), n, "prev", last), n, "next", Null)
      nodes2 == IF last = Null THEN Put(nodes1, up, "first", n) ELSE nodes1
  IN [T1 EXCEPT !.nodes = Put(Put(nodes2, up, "last", n), n, "parent", up)]

InsertFirstChild(T, up, n) ==
  LET T1 == InsertChildPreamble(T, n)
      first == T1.nodes[up].first
      nodes1 == Put(Put(Put(T1.nodes, first, "prev", n), n, "next", first), n, "prev", Null)
      nodes2 == IF first = Null THEN Put(nodes1, up, "last", n) ELSE nodes1
  IN [T1 EXCEPT !.nodes = Put(Put(nodes2, up, "first", n), n, "parent", up)]

\* Mutant: behind the last child instead of the one given.
InsertAfterLast(T, up, after, n) == InsertEndChild(T, up, n)

InsertAfterChild(T, up, after, n) ==
  IF T.nodes[after].next = Null THEN InsertEndChild(T, up, n)
  ELSE LET T1 == InsertChildPreamble(T, n)
           next == T1.nodes[after].next
           nodes1 == Put(Put(T1.nodes, n, "prev", after), n, "next", next)
           nodes2 == Put(Put(nodes1, next, "prev", n), after, "next", n)
       IN [T1 EXCEPT !.nodes = Put(nodes2, n, "parent", up)]

-----------------------------------------------------------------------------
(* Attributes: an element's linked list is a sequence. *)

HasAttribute(T, n, name) == \E i \in DOMAIN T.nodes[n].attrs : T.nodes[n].attrs[i].name = name

\* ParseAttributes links what it has parsed behind the attribute before it.
AddAttribute(T, n, name, value) ==
  [SetTracked(Alloc(T, "attribute"), "attribute")
     EXCEPT !.nodes[n].attrs = Append(@, [item |-> NextItem(T, "attribute")[2], name |-> name, value |-> value])]

\* Mutant: the name is not looked for.
SetAttributeAnew(T, n, name, value) == AddAttribute(T, n, name, value)

\* FindOrCreateAttribute, and the value.
SetAttribute(T, n, name, value) ==
  IF HasAttribute(T, n, name)
  THEN [T EXCEPT !.nodes[n].attrs = [i \in DOMAIN @ |-> IF @[i].name = name THEN [@[i] EXCEPT !.value = value] ELSE @[i]]]
  ELSE AddAttribute(T, n, name, value)

Failing(q, e) == IF q.ok THEN q ELSE [ok |-> FALSE, error |-> e]

\* QueryIntAttribute and the others, by the type asked for.
QueryAttribute(T, n, name, type) ==
  LET attrs == T.nodes[n].attrs
      i == SelectInSeq(attrs, LAMBDA a : a.name = name)
  IN IF i = 0 THEN [ok |-> FALSE, error |-> "XML_NO_ATTRIBUTE"]
     ELSE Failing(Query(type, attrs[i].value), "XML_WRONG_ATTRIBUTE_TYPE")

\* IntValue and the others, IntAttribute and the others: an error is not
\* reported.
ValueOrZero(q) == IF q.ok THEN q.value ELSE 0
AttributeOrZero(T, n, name, type) == ValueOrZero(QueryAttribute(T, n, name, type))

DeleteAttribute(T, n, name) ==
  LET attrs == T.nodes[n].attrs
      i == SelectInSeq(attrs, LAMBDA a : a.name = name)
  IN IF i = 0 THEN T
     ELSE [FreeAttribute(T, attrs[i]) EXCEPT !.nodes[n].attrs = RemoveAt(@, i)]

-----------------------------------------------------------------------------
(* Reading the tree. *)

\* A walk along "next", "prev" or "parent" that a cycle cannot keep going.
Walk(T, n, field) ==
  LET From[k \in 0..Cardinality(DOMAIN T.nodes)] ==
        IF k = 0 THEN <<n>>
        ELSE LET w == From[k - 1]
             IN IF w[Len(w)] = Null THEN w ELSE Append(w, T.nodes[w[Len(w)]][field])
  IN SelectSeq(From[Cardinality(DOMAIN T.nodes)], LAMBDA m : m # Null)

Children(T, n) == Walk(T, T.nodes[n].first, "next")

\* "" is the null pointer that asks for any name.
ElementIn(T, walk, name) ==
  LET i == SelectInSeq(walk, LAMBDA m : T.nodes[m].kind = "element" /\ (name = "" \/ T.nodes[m].value = name))
  IN IF i = 0 THEN Null ELSE walk[i]

FirstChildElement(T, n, name) == ElementIn(T, Children(T, n), name)
LastChildElement(T, n, name) == ElementIn(T, Walk(T, T.nodes[n].last, "prev"), name)
NextSiblingElement(T, n, name) == ElementIn(T, Walk(T, T.nodes[n].next, "next"), name)

\* Mutant: the node itself is the first that is looked at.
PreviousSiblingElementSelf(T, n, name) == ElementIn(T, Walk(T, n, "prev"), name)

PreviousSiblingElement(T, n, name) == ElementIn(T, Walk(T, T.nodes[n].prev, "prev"), name)

\* XMLHandle: a step from nowhere leads nowhere.
Handle(T, n, step, name) ==
  CASE n = Null -> Null
    [] n # Null /\ step \in {"first", "last", "prev", "next"} -> T.nodes[n][step]
    [] n # Null /\ step = "firstElement" -> FirstChildElement(T, n, name)
    [] n # Null /\ step = "lastElement" -> LastChildElement(T, n, name)
    [] n # Null /\ step = "prevElement" -> PreviousSiblingElement(T, n, name)
    [] n # Null /\ step = "nextElement" -> NextSiblingElement(T, n, name)

\* XMLConstHandle, the same without leave to change what it leads to.
ConstHandle(T, n, step, name) == Handle(T, n, step, name)

\* GetText is the first child's value, if that child is a text.
HasText(T, n) == T.nodes[n].first # Null /\ T.nodes[T.nodes[n].first].kind = "text"
GetText(T, n) == T.nodes[T.nodes[n].first].value

\* QueryIntText and the others.
QueryText(T, n, type) ==
  IF HasText(T, n) THEN Failing(Query(type, GetText(T, n)), "XML_CAN_NOT_CONVERT_TEXT")
  ELSE [ok |-> FALSE, error |-> "XML_NO_TEXT_NODE"]

SetText(T, n, value) ==
  IF HasText(T, n) THEN SetValue(T, T.nodes[n].first, value)
  ELSE InsertFirstChild(New(T, "text", value, FALSE), n, NewId(T, "text"))

\* ShallowClone, in the node's own document: an element with its attributes.
CloneLeaf(T, n) == New(T, T.nodes[n].kind, T.nodes[n].value, T.nodes[n].cdata)
ShallowClone(T, n) ==
  FoldLeft(LAMBDA X, a : SetAttribute(X, NewId(T, T.nodes[n].kind), a.name, a.value), CloneLeaf(T, n), T.nodes[n].attrs)

\* The attributes' values are compared, their names are not.
EqualLeaf(T, n, m) == T.nodes[n].kind = T.nodes[m].kind /\ T.nodes[n].value = T.nodes[m].value
ShallowEqual(T, n, m) ==
  /\ EqualLeaf(T, n, m)
  /\ Len(T.nodes[n].attrs) = Len(T.nodes[m].attrs)
  /\ \A i \in DOMAIN T.nodes[n].attrs : T.nodes[n].attrs[i].value = T.nodes[m].attrs[i].value

\* What a reader sees below n: no addresses.
RECURSIVE Content(_, _)
Content(T, n) ==
  LET children == Children(T, n) IN
  [kind |-> T.nodes[n].kind, value |-> T.nodes[n].value, cdata |-> T.nodes[n].cdata,
   attrs |-> [i \in DOMAIN T.nodes[n].attrs |-> <<T.nodes[n].attrs[i].name, T.nodes[n].attrs[i].value>>],
   children |-> [i \in DOMAIN children |-> Content(T, children[i])]]
=============================================================================
