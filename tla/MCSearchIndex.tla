--------------------------- MODULE MCSearchIndex ---------------------------
(* Instances of SearchIndex for TLC. *)
EXTENDS SearchIndex

MCBlanks == {"newline"}

\* Pages contain a plain word, the numeral of the first id and line ends, or
\* three words, one more than there are top words.
MCPages == [docId : 1..MaxPages, words : SUBSET ({"a", "1"} \cup MCBlanks) \cup {{"a", "b", "1"}}]

\* Of three words every second page has another two more often.
MCTopWords ==
  [p \in MCPages |->
    LET countable == p.words \ MCBlanks IN
    IF Cardinality(countable) <= TopWordsMax THEN countable
    ELSE IF p.docId % 2 = 1 THEN {"a", "b"} ELSE {"b", "1"}]

MCNumeral == <<"1", "2", "3", "4">>
MCWords == {"a", "b", "1", "2", "3", "4"} \cup MCBlanks
MCTextLength == <<2, 1, 3, 2>>
=============================================================================
