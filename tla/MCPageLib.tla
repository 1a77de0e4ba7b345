------------------------------ MODULE MCPageLib ------------------------------
(***************************************************************************)
(* The XML library and the page library on small instances: texts of a few *)
(* pieces, documents of a few tokens that are made up while they are read, *)
(* and file systems with two feeds, some of them broken or incomplete.     *)
(***************************************************************************)
EXTENDS PageLib

\* Names of elements: of what is made up, not of the feeds.
CONSTANTS NameA, NameB

Piece(kind, bytes, means) == [kind |-> kind, bytes |-> bytes, means |-> means]

\* Characters, both newlines, entities, references to characters of one to
\* four bytes, and what only looks like an entity.
MCPieces ==
  {Piece("char", <<97>>, <<97>>), Piece("char", <<SPACE>>, <<SPACE>>), Piece("char", <<SEMI>>, <<SEMI>>),
   Piece("newline", <<CR>>, <<LF>>), Piece("newline", <<LF>>, <<LF>>),
   Piece("ref", <<38, 108, 116, 59>>, <<60>>), Piece("ref", <<38, 97, 109, 112, 59>>, <<38>>),
   Piece("ref", <<38, 35, 50, 48, 48, 49, 51, 59>>, <<228, 184, 173>>),
   Piece("ref", <<38, 35, 120, 51, 66, 49, 59>>, <<206, 177>>),
   Piece("ref", <<38, 35, 120, 49, 70, 54, 48, 48, 59>>, <<240, 159, 152, 128>>),
   Piece("ref", <<38, 35, 49, 51, 59>>, <<13>>), Piece("ref", <<38, 35, 59>>, <<0>>),
   Piece("unknown", <<38, 122>>, <<38, 122>>), Piece("unknown", <<38>>, <<38>>),
   Piece("ref", <<38, 35, 122, 59>>, <<38, 35, 122, 59>>)}

Leaf(kind, fail) == Token(kind, <<"t">>, <<>>, FALSE, fail)
Attr(name) == [name |-> name, value |-> <<"t">>]
Start(name, names, closed, fail) == Token("start", name, [i \in DOMAIN names |-> Attr(names[i])], closed, fail)
End(name, closed) == Token("end", name, <<>>, closed, "")
TextToken(s) == Token("text", s, <<>>, FALSE, "")

\* Every kind of token, well-formed and not.
MCTokens ==
  {Token("bom", <<>>, <<>>, FALSE, ""), TextToken(<<"ws">>), TextToken(<<"ws", "t">>),
   Token("text", <<"t">>, <<>>, FALSE, "XML_ERROR_PARSING_TEXT"), Leaf("declaration", ""), Leaf("comment", ""), Leaf("cdata", ""),
   Leaf("comment", "XML_ERROR_PARSING_COMMENT"), Start(NameA, <<>>, FALSE, ""), Start(NameB, <<"k">>, FALSE, ""),
   Start(NameA, <<"k", "m">>, TRUE, ""), Start(NameA, <<"k", "k">>, FALSE, ""), Start(NameA, <<"k">>, FALSE, "XML_ERROR_PARSING_ATTRIBUTE"),
   Start(NameA, <<>>, FALSE, "XML_ERROR_PARSING"), Start(NameA, <<"m">>, FALSE, "XML_ERROR_PARSING_ELEMENT"),
   End(NameA, FALSE), End(NameB, FALSE), End(NameB, TRUE)}

MCValues == {0, 1, -3, 25}

Elem(name, inside) == <<Start(name, <<>>, FALSE, "")>> \o inside \o <<End(name, FALSE)>>
Part(name, s) == Elem(name, IF s = <<>> THEN <<>> ELSE <<TextToken(s)>>)
Item(name, title, link, description) == Elem(name, Part("title", title) \o Part("link", link) \o Part("description", description))
Feed(inside) == Elem("rss", <<TextToken(<<"ws">>)>> \o Elem("channel", Part("title", <<"x">>) \o inside))

Plainly == Item("item", <<"x", "y">>, <<"z">>, <<"x", "<", "z", ">", " ", "y", "\n", "y", "<", "x">>)
Encoded == Elem("item", Part("title", <<>>) \o Part("link", <<"z">>) \o Part("description", <<>>)
                          \o Elem("content:encoded", <<Token("cdata", <<"y">> \o Tag("<content>") \o <<"x", ">", "z", "x">>, <<>>, FALSE, "")>>))

FeedNames == {"good", "encoded", "sibling", "tagged", "nolink", "notext", "nochannel", "broken", "longer"}
MCFeedOf ==
  [name \in FeedNames |->
    CASE name = "good" -> <<Leaf("declaration", "")>> \o Feed(Plainly)
      [] name = "encoded" -> Feed(Encoded \o Plainly)
      [] name = "sibling" -> Feed(Plainly \o Item("extra", <<"z">>, <<"z">>, <<"x", "\n", "x", " ", "z", "x">>))
      [] name = "tagged" -> Feed(Item("item", <<"x">> \o Tag("</title>"), <<"z">>, <<"x">> \o Tag("</content>")))
      [] name = "nolink" -> Feed(Plainly \o Elem("item", Part("title", <<"x">>) \o Part("description", <<"x">>)))
      [] name = "notext" -> Feed(Item("item", <<"x">>, <<"z">>, <<>>))
      [] name = "nochannel" -> Elem("rss", Plainly)
      [] name = "broken" -> <<Start("rss", <<>>, FALSE, "")>> \o Plainly
      [] name = "longer" -> Feed(Elem("item", <<Leaf("comment", "")>> \o Part("title", <<"x">>) \o Part("link", <<"z">>)
                                   \o Elem("description", <<TextToken(<<"y", " ", "y", " ", "z">>), Leaf("comment", ""), TextToken(<<"x">>)>>)))]

File(name) == [name |-> name, hidden |-> FALSE, kind |-> "file", to |-> ""]
Dir(name, hidden, to) == [name |-> name, hidden |-> hidden, kind |-> "dir", to |-> to]
Link(name, to) == [name |-> name, hidden |-> FALSE, kind |-> "link", to |-> to]
Dangling(name) == [name |-> name, hidden |-> FALSE, kind |-> "dangling", to |-> ""]

\* A directory with a feed, a hidden one and a subdirectory with another feed.
Nested(first, second) ==
  [dirs |-> [d \in {"data", "data/sub", "data/.old"} |->
     CASE d = "data" -> <<Dir(".", TRUE, "data"), Dir(".old", TRUE, "data/.old"), Dir("sub", FALSE, "data/sub"), File(first)>>
       [] d = "data/sub" -> <<File(second), Dir("..", TRUE, "data")>>
       [] OTHER -> <<File("broken")>>],
   parent |-> [d \in {"data", "data/sub", "data/.old"} |-> IF d = "data" THEN "" ELSE "data"]]

\* A link that leads out of the directory, and one that leads nowhere.
Linked(last) ==
  [dirs |-> [d \in {"", "data", "else", "else/deep"} |->
     CASE d = "" -> <<>>
       [] d = "data" -> <<Dangling("gone"), Link("link", "else/deep"), File("good"), last>>
       [] d = "else" -> <<File("good"), File("broken")>>
       [] OTHER -> <<File("encoded"), Dangling("gone")>>],
   parent |-> [d \in {"", "data", "else", "else/deep"} |-> IF d = "else/deep" THEN "else" ELSE ""]]

MCFileSystems == {Nested(first, second) : first, second \in FeedNames} \cup {Linked(File("sibling")), Linked(Dir("sub", FALSE, "data"))}

MCConfigFiles == {<<"yuliao", "data", "ripepagelib", "pages", "yuliao", "gone">>, <<"ripepagelib", "pages", "yuliao">>}

\* Two elements, one within the other, around a text: longer than what is made
\* up while it is read; and end tags that nobody waits for in front of more.
MCFiles == {<<Start(NameA, <<>>, FALSE, ""), Start(NameB, <<>>, FALSE, ""), TextToken(<<"t">>), End(NameB, FALSE), End(NameA, FALSE)>>,
            <<Start(NameA, <<>>, FALSE, ""), Leaf("comment", ""), Start(NameB, <<"k">>, FALSE, ""), Start(NameA, <<"k", "m">>, TRUE, ""),
              TextToken(<<"ws", "t">>), End(NameB, FALSE), Start(NameB, <<>>, FALSE, ""), End(NameB, FALSE), End(NameA, FALSE), Leaf("comment", "")>>,
            <<Start(NameA, <<"k">>, TRUE, ""), Leaf("comment", ""), End(NameB, FALSE), Start(NameB, <<>>, FALSE, ""), End(NameB, FALSE)>>,
            <<Start(NameA, <<>>, FALSE, ""), End(NameA, FALSE), End(NameA, FALSE), Start(NameA, <<"k", "k">>, FALSE, "")>>}

MCQueries == {{<<"x">>}, {<<"y">>, <<"z">>}, {<<"x">>, <<"y">>}}
=============================================================================
