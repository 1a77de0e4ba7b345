------------------------------- MODULE PageLib -------------------------------
(***************************************************************************)
(* The offline program up to the page library: the configuration names a   *)
(* directory, DirScanner collects the feeds in it, RssReader loads each    *)
(* and takes its items, PageLib writes them as numbered pages with an      *)
(* offset file; WebPage, of which both programs have one, cuts a page into *)
(* its fields.  A tag of a page is as many characters as it has there.     *)
(***************************************************************************)
EXTENDS XmlDocument

CONSTANTS
  ConfigFiles,  \* what my.conf may hold: sequences of words
  FileSystems,  \* directories by path: sequences of entries
  FeedOf,       \* what the files hold: tokens by name
  TopK,         \* TOPK_NUMBER (20)
  StopWords,    \* _stopWordList
  Queries,      \* words asked for
  SummaryLines  \* lines of a summary (5)

VARIABLES
  libStage,     \* "off", "config", "scan", "open", "load", "rss", "stored", "exited", "crashed"
  fs,           \* the file system
  scan,         \* open directories with what is left of them, and the working directory
  files,        \* _vecFilesfiles
  loadedFeeds,  \* how many of them have been loaded
  item,         \* the element that parseRss has reached
  items,        \* _items
  lib           \* the files written: pages and offsets

libVars == <<libStage, fs, scan, files, loadedFeeds, item, items, lib>>
libraryVars == <<textVars, docVars, libVars>>

Stays == UNCHANGED <<textVars, docVars>>

-----------------------------------------------------------------------------
(* Configuration: pairs of words; the first value of a key is kept, and a   *)
(* word without a second one is dropped.                                    *)

ConfigMap(words) ==
  LET pairs == [i \in 1..Len(words) \div 2 |-> <<words[2 * i - 1], words[2 * i]>>]
  IN FoldLeft(LAMBDA m, p : m @@ (p[1] :> p[2]), <<>>, pairs)

\* operator[] of a map gives "" for a key that is not there.
Lookup(map, key) == IF key \in DOMAIN map THEN map[key] ELSE ""

-----------------------------------------------------------------------------
(* DirScanner::traverse.  Names are relative to the working directory,      *)
(* which is left by "..": the parent of where the last chdir really led.    *)

Entry(dir, name) == SelectInSeq(fs.dirs[dir], LAMBDA e : e.name = name)

\* Where a name leads from the working directory: a link is followed.
Stat(dir, name) ==
  LET i == Entry(dir, name)
  IN IF i = 0 \/ fs.dirs[dir][i].kind = "dangling" THEN "none"
     ELSE IF fs.dirs[dir][i].to # "" THEN "dir" ELSE "file"

\* A call of traverse: it has a mystat of its own, uninitialised.
Enter(open, dir) ==
  \E garbage \in {"dir", "file"} :
    scan' = [open |-> Append(open, [left |-> fs.dirs[dir], mystat |-> garbage]), cwd |-> dir]

Exit == libStage' = "exited" /\ UNCHANGED <<scan, files>>

Configure ==
  /\ libStage = "config"
  /\ \E words \in ConfigFiles :
       LET dir == Lookup(ConfigMap(words), "yuliao")
       IN IF dir \in DOMAIN fs.dirs THEN Enter(<<>>, dir) /\ libStage' = "scan" /\ UNCHANGED files ELSE Exit
  /\ Stays /\ UNCHANGED <<fs, loadedFeeds, item, items, lib>>

\* Mutant: an entry has the kind of the one before.
StatIntoStale(found, stale) == stale

\* stat fails and leaves mystat as it was.
StatInto(found, stale) == IF found = "none" THEN stale ELSE found

ReadEntry ==
  /\ libStage = "scan" /\ Last(scan.open).left # <<>>
  /\ LET top == Last(scan.open)
         e == Head(top.left)
         found == Stat(scan.cwd, e.name)
         kind == StatInto(found, top.mystat)
         rest == [scan EXCEPT !.open[Len(scan.open)] = [left |-> Tail(top.left), mystat |-> kind]]
     IN CASE kind = "file" ->
               /\ files' = Append(files, [dir |-> scan.cwd, name |-> e.name])
               /\ scan' = rest /\ UNCHANGED libStage
          [] kind = "dir" /\ e.hidden -> scan' = rest /\ UNCHANGED <<libStage, files>>
          [] kind = "dir" /\ ~e.hidden ->
               IF found # "dir" THEN Exit
               ELSE Enter(rest.open, fs.dirs[scan.cwd][Entry(scan.cwd, e.name)].to) /\ UNCHANGED <<libStage, files>>
  /\ Stays /\ UNCHANGED <<fs, loadedFeeds, item, items, lib>>

EndDirectory ==
  /\ libStage = "scan" /\ Last(scan.open).left = <<>>
  /\ scan' = [open |-> Front(scan.open), cwd |-> fs.parent[scan.cwd]]
  /\ libStage' = IF Len(scan.open) = 1 THEN "load" ELSE libStage
  /\ Stays /\ UNCHANGED <<fs, files, loadedFeeds, item, items, lib>>

-----------------------------------------------------------------------------
(* RssReader. *)

\* Characters of a page.
TagLen ==
  ("<docid>" :> 7) @@ ("</docid>" :> 8) @@ ("<title>" :> 7) @@ ("</title>" :> 8) @@ ("<link>" :> 6) @@ ("</link>" :> 7)
    @@ ("<content>" :> 9) @@ ("</content>" :> 10) @@ ("<doc>" :> 5) @@ ("/<doc>" :> 6)
Tag(name) == [i \in 1..TagLen[name] |-> name \o ToString(i)]
Opening == {"<", "/<doc>2"} \cup {Tag(name)[1] : name \in DOMAIN TagLen \ {"/<doc>"}}
Closing == {">"} \cup {Last(Tag(name)) : name \in DOMAIN TagLen}

\* regex_replace of <.*?> by nothing.
Strip(s) ==
  LET From[i \in 1..Len(s) + 1] ==
        IF i > Len(s) THEN <<>>
        ELSE LET close == IF s[i] \in Opening THEN SelectInSubSeq(s, i + 1, Len(s), LAMBDA c : c \in Closing) ELSE 0
             IN IF close = 0 THEN <<s[i]>> \o From[i + 1] ELSE From[close + 1]
  IN From[1]

\* A file that the scanner only thought it saw cannot be loaded.
FileExists(f) == Stat(f.dir, f.name) = "file"

LoadFeed ==
  /\ libStage = "load" /\ loadedFeeds < Len(files)
  /\ IF FileExists(files[loadedFeeds + 1])
     THEN StartParsing(EmptyDocument, FeedOf[files[loadedFeeds + 1].name], TRUE) /\ libStage' = "open" /\ UNCHANGED loadedFeeds
     ELSE loadedFeeds' = loadedFeeds + 1 /\ UNCHANGED <<libStage, tree, error, phase, input, given, pos, stack, fresh, writeBOM>>
  /\ UNCHANGED <<textVars, viaFile, printed, edit, fs, scan, files, item, items, lib>>

ParseFeed ==
  /\ libStage = "open"
  /\ ParseStep
  /\ UNCHANGED <<textVars, libVars>>

\* The document is local to loadFeedFiles.
Leave == loadedFeeds' = loadedFeeds + 1 /\ libStage' = "load" /\ phase' = "idle" /\ tree' = EmptyDocument

FeedLoaded ==
  /\ libStage = "open" /\ phase = "loaded"
  /\ LET root == FirstChildElement(tree, Doc, "")
         channel == FirstChildElement(tree, root, "channel")
     IN IF error # "XML_SUCCESS" THEN Leave /\ UNCHANGED item
        ELSE IF root = Null \/ channel = Null THEN libStage' = "crashed" /\ UNCHANGED <<loadedFeeds, phase, tree, item>>
        ELSE libStage' = "rss" /\ item' = FirstChildElement(tree, channel, "item") /\ UNCHANGED <<loadedFeeds, phase, tree>>
  /\ UNCHANGED <<textVars, error, parserVars, edit, fs, scan, files, items, lib>>

\* GetText of the child of that name; "none" is the null pointer.
ChildText(name) ==
  LET n == FirstChildElement(tree, item, name) IN IF HasText(tree, n) THEN GetText(tree, n) ELSE <<"none">>
OrEmpty(s) == IF s = <<"none">> THEN <<>> ELSE s

\* Mutant: the encoded content is not looked for.
ContentTextDescribed == ChildText("description")

ContentText ==
  IF FirstChildElement(tree, item, "content:encoded") # Null THEN ChildText("content:encoded") ELSE ChildText("description")

\* Mutant: the items are those called item.
NextItemNamed == NextSiblingElement(tree, item, "item")

\* NextSiblingElement is asked for no name: every later sibling is an item.
NextSibling == NextSiblingElement(tree, item, "")

ReadItem ==
  /\ libStage = "rss" /\ item # Null
  /\ IF \E name \in {"title", "link", "description"} : FirstChildElement(tree, item, name) = Null
     THEN libStage' = "crashed" /\ UNCHANGED <<item, items>>
     ELSE IF ContentText = <<"none">> THEN libStage' = "crashed" /\ UNCHANGED <<item, items>>
     ELSE /\ items' = Append(items, [title |-> OrEmpty(ChildText("title")), link |-> OrEmpty(ChildText("link")),
                                     content |-> Strip(ContentText)])
          /\ item' = NextSibling
          /\ UNCHANGED libStage
  /\ Stays /\ UNCHANGED <<fs, scan, files, loadedFeeds, lib>>

FeedEnds ==
  /\ libStage = "rss" /\ item = Null
  /\ Leave
  /\ UNCHANGED <<textVars, error, parserVars, edit, fs, scan, files, item, items, lib>>

-----------------------------------------------------------------------------
(* PageLib. *)

TagLine(name, s) == <<" ">> \o Tag("<" \o name \o ">") \o s \o Tag("</" \o name \o ">") \o <<"\n">>

\* RssReader::makePages.
PageText(id) ==
  Tag("<doc>") \o <<"\n">> \o TagLine("docid", <<ToString(id)>>) \o TagLine("title", items[id].title)
    \o TagLine("link", items[id].link) \o TagLine("content", items[id].content) \o Tag("/<doc>") \o <<"\n">>

\* tellp gives -1 if the page file could not be opened.
StorePage(acc, id, opened) ==
  [file |-> IF opened THEN acc.file \o PageText(id) ELSE acc.file,
   offsets |-> Append(acc.offsets, [id |-> id, offset |-> IF opened THEN Len(acc.file) ELSE -1, length |-> Len(PageText(id))])]

\* PageLib::store gives up only if neither file can be opened.
Store ==
  /\ libStage = "load" /\ loadedFeeds = Len(files)
  /\ \E pagesOpen, offsetsOpen \in BOOLEAN :
       IF ~pagesOpen /\ ~offsetsOpen THEN libStage' = "exited" /\ UNCHANGED lib
       ELSE LET stored == FoldLeft(LAMBDA acc, id : StorePage(acc, id, pagesOpen),
                                   [file |-> <<>>, offsets |-> <<>>], [i \in DOMAIN items |-> i])
            IN /\ lib' = [stored EXCEPT !.offsets = IF offsetsOpen THEN @ ELSE <<>>]
               /\ libStage' = "stored"
  /\ Stays /\ UNCHANGED <<fs, scan, files, loadedFeeds, item, items>>

-----------------------------------------------------------------------------
(* WebPage: positions as string::find and substr count them, from 0.        *)

Find(s, pattern) ==
  LET at == {i \in 0..Len(s) - Len(pattern) : SubSeq(s, i + 1, i + Len(pattern)) = pattern}
  IN IF at = {} THEN -1 ELSE Min(at)

\* A negative length, which becomes a very large one, takes all the rest.
Substr(s, from, n) == SubSeq(s, from + 1, IF n < 0 \/ from + n > Len(s) THEN Len(s) ELSE from + n)

\* The field between a tag and its end tag, whose length is counted with the
\* tag's own, and whose place with that of "skipped".
CutField(page, name, skipped) ==
  LET head == "<" \o name \o ">"
      bpos == Find(page, Tag(head))
      epos == Find(page, Tag("</" \o name \o ">"))
  IN Substr(page, bpos + TagLen[skipped], epos - bpos - TagLen[head])

\* Mutant: the offline program's fields are cut as the online one's.
OfflineFieldsShifted(page) ==
  [id |-> CutField(page, "docid", "<docid>"), title |-> CutField(page, "title", "<docid>"), content |-> CutField(page, "content", "<docid>")]

OfflineFields(page) ==
  [id |-> CutField(page, "docid", "<docid>"), title |-> CutField(page, "title", "<title>"), content |-> CutField(page, "content", "<content>")]

\* Mutant: the online title is cut like the content.
OnlineFieldsTitle(page) ==
  [id |-> CutField(page, "docid", "<docid>"), title |-> CutField(page, "title", "<content>"),
   content |-> CutField(page, "content", "<docid>"), url |-> CutField(page, "link", "<docid>")]

\* Here every place is counted with the length of "<docid>".
OnlineFields(page) ==
  [id |-> CutField(page, "docid", "<docid>"), title |-> CutField(page, "title", "<docid>"),
   content |-> CutField(page, "content", "<docid>"), url |-> CutField(page, "link", "<docid>")]

Rank(word) == SelectInSeq(<<"\n", " ", "<", ">", "x", "y", "z">>, LAMBDA c : c = word)
Count(words, w) == Cardinality({i \in DOMAIN words : words[i] = w})

\* Mutant: of equal words the last one comes first.
AheadLast(words, v, w) ==
  Count(words, v) > Count(words, w) \/ (Count(words, v) = Count(words, w) /\ Rank(v) > Rank(w))

\* WordFreqCompare: the more frequent word, of equal ones the smaller.
Ahead(words, v, w) ==
  Count(words, v) > Count(words, w) \/ (Count(words, v) = Count(words, w) /\ Rank(v) < Rank(w))

\* calcTopK; a word that is a line end does not count.
BestWords(words) ==
  LET kept == {w \in ToSet(words) : w \notin StopWords}
      ordered == SetToSortSeq(kept, LAMBDA v, w : Ahead(words, v, w))
      top == SelectSeq(ordered, LAMBDA w : w # "\n")
  IN SubSeq(top, 1, IF Len(top) < TopK THEN Len(top) ELSE TopK)

Lines(s) ==
  FoldLeft(LAMBDA acc, c :
      IF c \in {" ", "\n"} THEN Append(acc, <<>>) ELSE [acc EXCEPT ![Len(acc)] = Append(@, c)],
    <<<<>>>>, s)

\* Mutant: a line is taken once for each word.
SummaryEach(content, words) ==
  FoldLeft(LAMBDA acc, line : acc \o [i \in 1..Cardinality({w \in words : Find(line, w) # -1}) |-> line], <<>>, Lines(content))

\* summary(): the lines with one of the words, a few of them.
Summary(content, words) ==
  LET found == SelectSeq(Lines(content), LAMBDA line : \E w \in words : Find(line, w) # -1)
  IN SubSeq(found, 1, IF Len(found) < SummaryLines THEN Len(found) ELSE SummaryLines)

-----------------------------------------------------------------------------

LibIdle ==
  /\ scan = [open |-> <<>>, cwd |-> ""] /\ files = <<>> /\ loadedFeeds = 0 /\ item = Null /\ items = <<>>
  /\ lib = [file |-> <<>>, offsets |-> <<>>]

\* One thing is looked at: a string, a document, or the offline program.
LibInit ==
  /\ LibIdle
  /\ \/ TextInit /\ DocIdle /\ libStage = "off" /\ fs = Null
     \/ DocInit /\ source = Null /\ pair = Reset /\ libStage = "off" /\ fs = Null
     \/ DocIdle /\ source = Null /\ pair = Reset /\ libStage = "config" /\ fs \in FileSystems

LibNext ==
  \/ libStage = "off" /\ source # Null /\ GetStr /\ UNCHANGED <<docVars, libVars>>
  \/ libStage = "off" /\ source = Null /\ DocNext /\ UNCHANGED <<textVars, libVars>>
  \/ Configure \/ ReadEntry \/ EndDirectory \/ LoadFeed \/ ParseFeed \/ FeedLoaded \/ ReadItem \/ FeedEnds \/ Store

LibSpec == LibInit /\ [][LibNext]_libraryVars

-----------------------------------------------------------------------------
(* Properties. *)

\* Every variable has its type, whatever is looked at.
LibTypeOK ==
  /\ libStage \in {"off", "config", "scan", "load", "open", "rss", "stored", "exited", "crashed"}
  /\ phase \in {"idle", "parsing", "unwinding", "parsed", "loaded", "cleared", "editing", "broken"}
  /\ error \in Errors
  /\ loadedFeeds \in 0..Len(files) /\ pos \in 0..Len(input)
  /\ \A i \in DOMAIN files : files[i].dir \in DOMAIN fs.dirs
  /\ item \in DOMAIN tree.nodes \cup {Null}
  /\ ToSet(stack) \subseteq DOMAIN tree.nodes
  /\ \A n \in DOMAIN tree.nodes : tree.nodes[n].kind \in Kinds
  /\ given \in BOOLEAN /\ fresh \in BOOLEAN /\ writeBOM \in BOOLEAN

\* Whatever is parsed, rejected, moved, deleted and copied, the document stays
\* a tree that accounts for all memory of its pools: nodes, links and counters
\* agree, every way through the elements can be gone back, and a node that was
\* moved is where it was put; the moves that break it are named.
TreeIsWhole ==
  /\ LibTypeOK
  /\ LinksConsistent
  /\ PoolsBalanced
  /\ NothingLost
  /\ MovedOrBroken
  /\ WalksAgree

Plain == \A d \in DOMAIN fs.dirs, i \in 1..10 : i \in DOMAIN fs.dirs[d] => fs.dirs[d][i].kind \in {"file", "dir"}
Below(d) == {e.to : e \in {x \in ToSet(fs.dirs[d]) : x.kind = "dir" /\ ~x.hidden}}
RECURSIVE Reached(_)
Reached(d) == {d} \cup UNION {Reached(sub) : sub \in Below(d)}
FeedsBelow(top) ==
  UNION {{[dir |-> d, name |-> e.name] : e \in {x \in ToSet(fs.dirs[d]) : x.kind = "file"}} : d \in Reached(top)}

\* Where there are no links, and nothing that cannot be examined, the scan
\* collects every file below the configured directory once, those in hidden
\* directories left out, and is back where it started.
ScanFindsFeeds ==
  libStage \in {"load", "open", "rss", "stored"} /\ Plain =>
    /\ IsInjective(files)
    /\ \E top \in DOMAIN fs.dirs : ToSet(files) = FeedsBelow(top) /\ fs.parent[top] = scan.cwd

\* A feed as a reader without a tree would see it, its elements counted by the
\* tags around them: the parts of each item, and whether there is a channel.
Parts == {"title", "link", "description", "content:encoded"}
Absent == <<"absent">>
StreamStart(acc, name) ==
  LET path == Append(acc.path, name)
      inChannel == acc.roots = 1 /\ acc.channels = 1 /\ Len(path) > 2 /\ path[2] = "channel"
      isItem == inChannel /\ Len(path) = 3 /\ (name = "item" \/ acc.items # <<>>)
      isPart == inChannel /\ Len(path) = 4 /\ acc.items # <<>> /\ name \in Parts /\ Last(acc.items)[name] = Absent
  IN [path |-> path,
      roots |-> IF Len(path) = 1 THEN acc.roots + 1 ELSE acc.roots,
      channels |-> IF Len(path) = 2 /\ acc.roots = 1 /\ name = "channel" THEN acc.channels + 1 ELSE acc.channels,
      items |-> IF isItem THEN Append(acc.items, [p \in Parts |-> Absent])
                ELSE IF isPart THEN [acc.items EXCEPT ![Len(acc.items)][name] = <<"none">>] ELSE acc.items,
      first |-> isPart]

StreamStep(acc, t) ==
  LET n == Len(acc.items) IN
  CASE IsBlank(t) \/ t.kind = "bom" -> acc
    [] t.kind = "start" -> LET x == StreamStart(acc, t.value) IN IF t.closed THEN [x EXCEPT !.path = acc.path, !.first = FALSE] ELSE x
    [] t.kind = "end" -> [acc EXCEPT !.path = Front(@), !.first = FALSE]
    [] t.kind \in {"text", "cdata"} /\ acc.first -> [acc EXCEPT !.items[n][Last(acc.path)] = t.value, !.first = FALSE]
    [] OTHER -> [acc EXCEPT !.first = FALSE]

Streamed(tokens) ==
  FoldLeft(StreamStep, [path |-> <<>>, roots |-> 0, channels |-> 0, items |-> <<>>, first |-> FALSE], tokens)

ContentPart(x) == IF x["content:encoded"] # Absent THEN x["content:encoded"] ELSE x["description"]

ItemsOf(tokens) ==
  LET found == IF WellFormed(tokens) THEN Streamed(tokens).items ELSE <<>>
  IN [i \in DOMAIN found |-> [title |-> OrEmpty(found[i]["title"]), link |-> OrEmpty(found[i]["link"]),
                              content |-> Strip(ContentPart(found[i]))]]

\* The items are those of the well-formed feeds, in the order in which the
\* scan found the feeds: from the first item on, every sibling is one.
ItemsOfFeeds ==
  libStage \in {"load", "stored"} =>
    items = FlattenSeq([i \in 1..loadedFeeds |-> IF FileExists(files[i]) THEN ItemsOf(FeedOf[files[i].name]) ELSE <<>>])

\* Only a well-formed feed without a channel, or one of whose items lacks a
\* part, or the text that becomes its content, ends the program.
OnlyIncompleteFeedsCrash ==
  libStage = "crashed" =>
    LET tokens == FeedOf[files[loadedFeeds + 1].name] IN
    /\ WellFormed(tokens)
    /\ Streamed(tokens).channels > 0 =>
         \E i \in DOMAIN Streamed(tokens).items :
           LET x == Streamed(tokens).items[i] IN
           Absent \in {x["title"], x["link"], x["description"]} \/ ContentPart(x) = <<"none">>

\* From the directory to the items nothing is lost, added or reordered, and
\* only a feed that lacks something stops the program.
FeedsBecomeItems ==
  /\ ScanFindsFeeds
  /\ ItemsOfFeeds
  /\ OnlyIncompleteFeedsCrash

Tagged(s) == \E name \in DOMAIN TagLen : Find(s, Tag(name)) # -1

BothOpened == lib.offsets # <<>> /\ lib.offsets[1].offset # -1

PageAt(i) == SubSeq(lib.file, lib.offsets[i].offset + 1, lib.offsets[i].offset + lib.offsets[i].length)

\* The page that an offset line locates has its number, and its fields are
\* those of the item, unless the item's title or link has a page's tag in it.
LibReadBack ==
  libStage = "stored" /\ BothOpened =>
    /\ Len(lib.offsets) = Len(items)
    /\ \A i \in DOMAIN items :
         LET fields == OfflineFields(PageAt(i)) IN
         /\ lib.offsets[i].id = i /\ fields.id = <<ToString(i)>>
         /\ ~Tagged(items[i].title) /\ ~Tagged(items[i].link) =>
              fields.title = items[i].title /\ fields.content = items[i].content

\* The online program cuts the title right, and the content and the link as
\* many characters too early or too late as their tags differ from "<docid>":
\* a content loses its end, a link its first character.
OnlineFieldsDisplaced ==
  libStage = "stored" /\ BothOpened =>
    \A i \in DOMAIN items :
      LET fields == OnlineFields(PageAt(i))
          x == items[i]
      IN /\ fields.id = <<ToString(i)>>
         /\ ~Tagged(x.title) /\ ~Tagged(x.link) =>
              /\ fields.title = x.title
              /\ fields.content = SubSeq(SubSeq(Tag("<content>"), 8, 9) \o x.content, 1, Len(x.content))
              /\ fields.url = SubSeq(x.link \o SubSeq(Tag("</link>"), 1, 1), 2, Len(x.link) + 1)

\* The top words of a content: no word left out is ahead of one taken, no
\* word is taken twice, and line ends do not take up any of the places.
TopWordsMostFrequent ==
  libStage = "stored" =>
    \A i \in DOMAIN items :
      LET words == items[i].content
          top == BestWords(words)
          possible == (ToSet(words) \ StopWords) \ {"\n"}
      IN /\ IsInjective(top) /\ ToSet(top) \subseteq possible
         /\ Len(top) = Min({TopK, Cardinality(possible)})
         /\ \A k \in DOMAIN top : \A w \in possible \ ToSet(SubSeq(top, 1, k - 1)) :
              /\ Count(words, top[k]) >= Count(words, w)
              /\ Count(words, top[k]) = Count(words, w) => Rank(top[k]) <= Rank(w)

\* A summary quotes lines with a word that was asked for, each as often as it
\* is there, and all of them unless it is full.
SummaryQuotes ==
  libStage = "stored" =>
    \A i \in DOMAIN items, words \in Queries :
      LET matching == {k \in DOMAIN Lines(items[i].content) : \E w \in words : Find(Lines(items[i].content)[k], w) # -1}
          quoted == Summary(items[i].content, words)
      IN /\ Len(quoted) = Min({SummaryLines, Cardinality(matching)})
         /\ \A q \in ToSet(quoted) :
              Cardinality({k \in DOMAIN quoted : quoted[k] = q}) <= Cardinality({k \in matching : Lines(items[i].content)[k] = q})

\* Both programs find in the stored pages what the items had, the online one
\* displaced as its tag lengths are.
PagesAreRight ==
  /\ LibReadBack
  /\ OnlineFieldsDisplaced
  /\ TopWordsMostFrequent
  /\ SummaryQuotes
=============================================================================
