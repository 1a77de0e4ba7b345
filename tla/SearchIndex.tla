---------------------------- MODULE SearchIndex ----------------------------
(***************************************************************************)
(* The inverted index from the library to the server: after the            *)
(* deduplication (PageDedup) buildInvertIndexTable counts and weighs the   *)
(* words, storeOnDisk writes pages, offsets and index to files, and the    *)
(* constructor of WordQuery reads them back for every query.               *)
(*                                                                         *)
(* A text is a sequence of bytes that know the page they belong to.  The   *)
(* index file is a sequence of lines, a line is the sequence of fields     *)
(* that operator>> finds on it.  Of a weight the model keeps the posting   *)
(* it was computed for and what its digits look like ("nan", "0", "1",     *)
(* "-1" or a fraction); fractions below 0.0001, which are written with an  *)
(* exponent, are not considered.                                           *)
(***************************************************************************)
EXTENDS PageDedup, FiniteSets, SequencesExt

CONSTANTS
  Words,       \* the words that occur in pages
  Blanks,      \* those made of white space, which segmentation also yields
  Newlines,    \* those that end a line
  TopWords,    \* WebPage::_topWords, for each page; PageLib has the choice
  TopWordsMax, \* TOPK_NUMBER (20)
  Numeral,     \* the word written like the id d, for each id
  TextLength   \* the length of the page numbered d

\* The word a default-constructed string is.
EmptyWord == "the empty word"

ASSUME IndexAssumption ==
  /\ IsFiniteSet(Words) /\ EmptyWord \notin Words
  /\ Newlines \subseteq Blanks
  /\ Blanks \subseteq Words
  /\ Numeral \in [1..MaxPages -> Words \ Blanks]
  /\ TextLength \in [1..MaxPages -> Nat]
  /\ Pages = [docId : 1..MaxPages, words : {p.words : p \in Pages}]
  /\ \A p \in Pages : p.words \subseteq Words
  /\ TopWordsMax \in Nat /\ TopWords \in [Pages -> SUBSET Words]
  /\ \A p \in Pages :
       LET countable == p.words \ Newlines IN
       /\ TopWords[p] \subseteq countable
       /\ Cardinality(TopWords[p]) =
            IF Cardinality(countable) < TopWordsMax THEN Cardinality(countable) ELSE TopWordsMax

VARIABLES
  stage,       \* which function runs
  index,       \* PageLibPreprocessor::_invertIndexTable, ids in list order
  unstored,    \* the words storeOnDisk has still to write
  indexFile,   \* invertindex.dat
  pageFile,    \* newpagelib.dat
  offsetFile,  \* newoffsetlib.dat
  texts,       \* WordQuery::_pageLib, the text of each page
  table,       \* WordQuery::_invertIndexTable
  word, pairs, \* the constructor's local variables word and id_weight
  next,        \* the number of lines it has read
  fields       \* what is left of the line it reads

indexVars == <<stage, index, unstored, indexFile, pageFile, offsetFile, texts,
               table, word, pairs, next, fields>>
allVars == <<vars, indexVars>>
fileVars == <<index, unstored, indexFile, pageFile, offsetFile>>

\* operator==: more than three quarters of the shorter list in common; for an
\* empty list the quotient 0.0 / 0 compares as not greater.
Alike(p, q) ==
  LET shorter == IF Cardinality(TopWords[p]) < Cardinality(TopWords[q])
                 THEN TopWords[p] ELSE TopWords[q]
  IN  4 * Cardinality(TopWords[p] \cap TopWords[q]) > 3 * Cardinality(shorter)

\* readInfoFromFile: the pages in the order of their ids.
IndexInit ==
  /\ \E n \in 0..MaxPages : \E words \in [1..n -> {p.words : p \in Pages}] :
       pageLib = [k \in 1..n |-> [docId |-> k, words |-> words[k]]]
  /\ loaded = {pageLib[k] : k \in 1..Len(pageLib)}
  /\ similar = {pair \in loaded \X loaded : Alike(pair[1], pair[2])}
  /\ i = 0
  /\ j = 0
  /\ pc = "outer"
  /\ stage = "cutRedundantPages"
  /\ index = <<>>
  /\ unstored = {}
  /\ indexFile = <<>>
  /\ pageFile = <<>>
  /\ offsetFile = <<>>
  /\ texts = <<>>
  /\ table = <<>>
  /\ word = EmptyWord
  /\ pairs = {}
  /\ next = 0
  /\ fields = <<>>

Cut ==
  /\ stage = "cutRedundantPages"
  /\ Next
  /\ UNCHANGED indexVars

\* The ids of the pages with word w, in the order of the vector.
IdsWith(w) ==
  LET ids[n \in 0..Size] ==
        IF n = 0 THEN <<>>
        ELSE IF w \in pageLib[n].words THEN Append(ids[n - 1], pageLib[n].docId) ELSE ids[n - 1]
  IN  ids[Size]

\* buildInvertIndexTable; the weights follow from the table, see Digits.
Build ==
  /\ stage = "cutRedundantPages"
  /\ pc = "done"
  /\ index' = [w \in UNION {pageLib[k].words : k \in 1..Size} |-> IdsWith(w)]
  /\ unstored' = DOMAIN index'
  /\ stage' = "storeOnDisk"
  /\ UNCHANGED <<vars, indexFile, pageFile, offsetFile, texts, table, word, pairs, next, fields>>

\* idf = log2(pages / (df + 1)) vanishes for a word in all pages but one.
IdfIsZero(w) == Len(index[w]) + 1 = Size

WeighingWords(d) == {w \in DOMAIN index : d \in ToSet(index[w]) /\ ~IdfIsZero(w)}

\* Mutant: undefined for each word with idf 0.
DigitsOfWord(w, d) ==
  IF IdfIsZero(w) THEN "nan"
  ELSE IF WeighingWords(d) # {w} THEN "0.x"
  ELSE IF Len(index[w]) = Size THEN "-1" ELSE "1"

\* tf * idf, divided by the length of the page's vector: 0 / 0 if every word
\* of the page has idf 0, and 1 or -1 if all but one have.
Digits(w, d) ==
  IF WeighingWords(d) = {} THEN "nan"
  ELSE IF IdfIsZero(w) THEN "0"
  ELSE IF WeighingWords(d) # {w} THEN "0.x"
  ELSE IF Len(index[w]) = Size THEN "-1" ELSE "1"

Text(d) == [k \in 1..TextLength[d] |-> <<d, k>>]

\* sort(): the pages in the order of their ids.
SortedPages ==
  CHOOSE s \in [1..Size -> ToSet(pageLib)] :
    /\ ToSet(s) = ToSet(pageLib)
    /\ \A k, l \in 1..Size : k < l => s[k].docId < s[l].docId

\* The page file when the first n of the pages are written.
FileUpTo(pages, n) ==
  LET file[m \in 0..Len(pages)] ==
        IF m = 0 THEN <<>> ELSE file[m - 1] \o Text(pages[m].docId)
  IN  file[n]

\* Mutant: tellp() before the page in front of it is flushed.
OffsetUnflushed(pages, k) == Len(FileUpTo(pages, IF k = 1 THEN 0 ELSE k - 2))

\* tellp() before the k-th page is written.
Offset(pages, k) == Len(FileUpTo(pages, k - 1))

\* storeOnDisk sorts the pages by id and writes them with their offsets.
StorePages ==
  /\ stage = "storeOnDisk"
  /\ offsetFile = <<>>
  /\ pageFile' = FileUpTo(SortedPages, Size)
  /\ offsetFile' = [k \in 1..Size |->
       [id |-> SortedPages[k].docId, offset |-> Offset(SortedPages, k),
        length |-> TextLength[SortedPages[k].docId]]]
  /\ UNCHANGED <<vars, stage, index, unstored, indexFile, texts, table, word, pairs, next, fields>>

Field(kind, w, d) == [kind |-> kind, word |-> w, id |-> d]

\* Id and weight of each posting of w.
Postings(w) ==
  [k \in 1..2 * Len(index[w]) |->
     LET d == index[w][(k + 1) \div 2]
     IN  Field(IF k % 2 = 1 THEN "id" ELSE Digits(w, d), w, d)]

\* The fields of w's line: white space written as a word is no field.
Line(w) == IF w \in Blanks THEN Postings(w) ELSE <<Field("word", w, 0)>> \o Postings(w)

\* One item of the table, in the order of the hash table, which is arbitrary.
StoreItem ==
  /\ stage = "storeOnDisk"
  /\ offsetFile # <<>>
  /\ \E w \in unstored :
       /\ indexFile' = indexFile \o (IF w \in Newlines THEN << <<>>, Line(w) >> ELSE <<Line(w)>>)
       /\ unstored' = unstored \ {w}
  /\ UNCHANGED <<vars, stage, index, pageFile, offsetFile, texts, table, word, pairs, next, fields>>

\* The files are complete; a query's constructor opens them.
Open ==
  /\ stage = "storeOnDisk"
  /\ offsetFile # <<>>
  /\ unstored = {}
  /\ stage' = "loadPages"
  /\ UNCHANGED <<vars, fileVars, texts, table, word, pairs, next, fields>>

\* seekg, read and insert for each line of the offset file.
LoadPages ==
  /\ stage = "loadPages"
  /\ texts' = [d \in {offsetFile[k].id : k \in 1..Len(offsetFile)} |->
       LET entry == CHOOSE e \in ToSet(offsetFile) : e.id = d
       IN  SubSeq(pageFile, entry.offset + 1, entry.offset + entry.length)]
  /\ stage' = "loadLine"
  /\ UNCHANGED <<vars, fileVars, table, word, pairs, next, fields>>

\* Mutant: operator[] in place of insert().
InsertOrReplace(w, set) ==
  [v \in DOMAIN table \cup {w} |-> IF v = w THEN set ELSE table[v]]

\* insert() keeps the entry that is there already.
Insert(w, set) ==
  [v \in DOMAIN table \cup {w} |-> IF v \in DOMAIN table THEN table[v] ELSE set]

CurrentLine == indexFile[next + 1]

\* A line without fields: ss >> word fails and leaves the word of the line
\* before, and an empty set is inserted for it.
LoadEmptyLine ==
  /\ stage = "loadLine"
  /\ next < Len(indexFile)
  /\ CurrentLine = <<>>
  /\ table' = Insert(word, {})
  /\ next' = next + 1
  /\ UNCHANGED <<vars, fileVars, stage, texts, word, pairs, fields>>

\* Mutant: reads a line too many.
LoadWordOfTwoLines ==
  /\ stage = "loadLine"
  /\ next < Len(indexFile)
  /\ CurrentLine # <<>>
  /\ word' = Head(CurrentLine).word
  /\ fields' = Tail(CurrentLine)
  /\ pairs' = {}
  /\ next' = next + 2
  /\ stage' = "loadPair"
  /\ UNCHANGED <<vars, fileVars, texts, table>>

\* The first field becomes the word, even if it is the id of a posting.
LoadWord ==
  /\ stage = "loadLine"
  /\ next < Len(indexFile)
  /\ CurrentLine # <<>>
  /\ LET first == Head(CurrentLine) IN
       word' = IF first.kind = "id" THEN Numeral[first.id] ELSE first.word
  /\ fields' = Tail(CurrentLine)
  /\ pairs' = {}
  /\ next' = next + 1
  /\ stage' = "loadPair"
  /\ UNCHANGED <<vars, fileVars, texts, table>>

\* ss >> docId: of a fraction the integer part, 0, whose rest can still be
\* read as a number.
IntegerAt(field) ==
  CASE field.kind = "id" -> field.id
    [] field.kind = "1" -> 1
    [] field.kind = "-1" -> -1
    [] OTHER -> 0

AfterInteger == IF fields[1].kind = "0.x" THEN fields ELSE Tail(fields)

PairAhead ==
  /\ fields # <<>>
  /\ fields[1].kind # "nan"
  /\ AfterInteger # <<>>
  /\ Head(AfterInteger).kind # "nan"

\* One posting: ss >> docId >> weight.
LoadPair ==
  /\ stage = "loadPair"
  /\ PairAhead
  /\ pairs' = pairs \cup {<<IntegerAt(fields[1]), Head(AfterInteger)>>}
  /\ fields' = Tail(AfterInteger)
  /\ UNCHANGED <<vars, stage, fileVars, texts, table, word, next>>

\* End of line, or a field that is not a number.
LoadLineEnd ==
  /\ stage = "loadPair"
  /\ ~PairAhead
  /\ table' = Insert(word, pairs)
  /\ stage' = "loadLine"
  /\ UNCHANGED <<vars, fileVars, texts, word, pairs, next, fields>>

Loaded ==
  /\ stage = "loadLine"
  /\ next = Len(indexFile)
  /\ stage' = "ready"
  /\ UNCHANGED <<vars, fileVars, texts, table, word, pairs, next, fields>>

IndexNext ==
  \/ Cut \/ Build \/ StorePages \/ StoreItem \/ Open
  \/ LoadPages \/ LoadEmptyLine \/ LoadWord \/ LoadPair \/ LoadLineEnd \/ Loaded

\* Both programs do this on one thread.
IndexSpec == IndexInit /\ [][IndexNext]_allVars /\ WF_allVars(IndexNext)

-----------------------------------------------------------------------------
(* Properties. *)

Fields == [kind : {"word", "id", "nan", "0", "1", "-1", "0.x"}, word : Words, id : 0..MaxPages]

IndexTypeOK ==
  /\ stage \in {"cutRedundantPages", "storeOnDisk", "loadPages", "loadLine", "loadPair", "ready"}
  /\ DOMAIN index \subseteq Words
  /\ \A w \in DOMAIN index : index[w] \in Seq(1..MaxPages)
  /\ unstored \subseteq DOMAIN index
  /\ next \in 0..Len(indexFile)
  /\ fields \in Seq(Fields)
  /\ DOMAIN texts \subseteq 1..MaxPages
  /\ DOMAIN table \subseteq Words \cup {EmptyWord}
  /\ \A w \in DOMAIN table : table[w] \subseteq Int \X Fields

\* Each page that is left, and no other, is read back with its own text,
\* although the file was written in another order than the vector's.
PagesReadBack ==
  stage = "ready" =>
    /\ DOMAIN texts = {pageLib[k].docId : k \in 1..Size}
    /\ \A d \in DOMAIN texts : texts[d] = Text(d)

\* What a word's line says when nothing goes wrong: its postings up to the
\* first that the reader cannot parse.
Legible(w) ==
  LET ids == index[w] IN
  {<<ids[k], Field(Digits(w, ids[k]), w, ids[k])>> :
     k \in {l \in 1..Len(ids) : \A m \in 1..l : Digits(w, ids[m]) # "nan"}}

\* The words under which the line of a blank word is read back: its first id.
Shadows == {Numeral[index[b][1]] : b \in DOMAIN index \cap Blanks}

\* Every word that is not white space is read back with its documents, each
\* with the weight computed for it, except those behind an undefined weight;
\* the only words to gain or lose others are the numerals that a blank
\* word's line is mistaken for.
PlainWordsReadBack ==
  stage = "ready" =>
    /\ \A w \in DOMAIN index \ (Blanks \cup Shadows) :
         w \in DOMAIN table /\ table[w] = Legible(w)
    /\ DOMAIN table \subseteq DOMAIN index \cup Shadows \cup {EmptyWord}

\* An undefined weight hides documents only if some page has no weighing word,
\* that is, if all its words are in all pages but one.
NothingHiddenOtherwise ==
  stage = "ready" =>
    \A w \in DOMAIN index \ (Blanks \cup Shadows) : \A d \in ToSet(index[w]) :
      \/ \E pair \in table[w] : pair[1] = d
      \/ \E p \in ToSet(pageLib) : \A v \in p.words : Len(index[v]) + 1 = Size

\* What storeOnDisk has written, the constructor of WordQuery reads: pages,
\* words, documents and weights, but for what the format cannot hold.
FilesReadBack ==
  /\ IndexTypeOK
  /\ PagesReadBack
  /\ PlainWordsReadBack
  /\ NothingHiddenOtherwise

\* The deduplication reads beyond the vector only if the library is empty, or
\* if the last page that is left has just lost a page behind it that was
\* similar to it.
OverrunExplained ==
  pc = "overrun" =>
    \/ loaded = {}
    \/ \E p \in loaded \ ToSet(pageLib) : <<pageLib[Size], p>> \in similar

\* The files are written and read back, unless the deduplication reads beyond
\* the vector, which takes one of the two reasons above.
IndexEnds == <>(stage = "ready" \/ (pc = "overrun" /\ OverrunExplained))
=============================================================================
