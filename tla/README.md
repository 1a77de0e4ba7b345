# miniSearchEngine: models, checks and proofs

TLA+ specifications of the search engine in `online/` (the query server) and
`offline/` (the program that builds its page library and index), the TLC
configurations that check them, and TLAPS proofs of the main results.

## Running

    tlc -config ThreadPoolAll.cfg ThreadPool.tla        # likewise the others
    tlapm ThreadPoolProofs.tla

`PROJECT.json` lists every run with its module and configuration, the mutants
that show each property can fail, the source lines behind each definition, and
the hazards of the code, line by line, with the properties that cover them.
Operators named as mutants stand next to the definition they mutate; no
specification uses them.

## The system

Paths are relative to the repository's source directory.

| Part | State | Operations | Talks to |
|---|---|---|---|
| Thread pool (`Threadpool`, `TaskQueue`, `Thread`, `WorkerThread`, `MutexLock`, `Condition`) | bounded queue of tasks, `_flag`, `_isExit`, mutex, two condition variables | `start`, `addTask`/`push`, `pop`, `stop`/`wakeup` | event loop (producer), `WordQuery::process` (consumer) |
| Event loop and connections (`TcpServer`, `EpollPoller`, `Acceptor`, `TcpConnection`, `Socket`, `SocketUtil.h`) | `_connMap` by descriptor, `_pendingFunctors`, eventfd, the kernel's descriptor table and backlog | accept, message, close, `runInloop`, `doPendingFunctors` | clients, workers (functors with a raw `this`) |
| Main server (`MainServer`) | owns all the others; global pointers | `onConnection`, `onMessage`, `onClose`, `start`, `stop` | all |
| Socket I/O (`SocketIO`), client (`client.c`) | byte streams | `readline`, `readn`, `writen` | each other |
| Query execution (`WordQuery`) | posting lists read from the index file | constructor, `process`, `executeQuery`, ranking, answer | connection, cache, segmentation |
| Query cache (`Cache`) | doubly linked list and map of nodes, update flags | `get`, `set`, `readFromFile`, `writeToFile` | cache manager |
| Cache manager (`CacheManager`) | caches, map from thread to cache | `initCache`, `getCache`, `periodcUpdate` | queries (each has a copy), timer |
| Timer (`Timer`, `TimerThread`, `boThread`) | timerfd, `_isStarted` | `start`, `stop` | calls `periodcUpdate` every 15 s |
| Segmentation (cppjieba, `WordSegmentation`) | dictionaries, trie, hidden Markov model | `LoadDict`, `InsertUserWord`, the cuts | preprocessing, queries |
| XML library (tinyxml2) | linked nodes in four memory pools, text translated in place | parse, print, edit | `RssReader` |
| Page library (`Configuration`, `DirScanner`, `RssReader`, `PageLib`) | feeds, their items, numbered pages with offsets | `traverse`, `loadFeedFiles`, `parseRss`, `makePages`, `store` | files |
| Preprocessing (`PageLibPreprocessor`, `WebPage`) | pages, inverted index | `readInfoFromFile`, `cutRedundantPages`, `buildInvertIndexTable`, `storeOnDisk` | files that `WordQuery` reads |
| `Config`, `Mylog`, `InetAddress`, unused parts of limonp | | | |

The online program has three kinds of threads. The main thread runs the epoll
loop: it accepts, reads one line per readable event, makes a `WordQuery` of it
and pushes it into the pool's queue, blocking while the queue is full. A worker
(`MainServer` starts one, with a queue of one) pops the task, runs `process()`
and hands each reply back to the loop as a functor: appended under a mutex,
announced through an eventfd. The timer thread polls a timerfd and calls
`periodcUpdate`. The offline program is sequential.

What is hard in it:

* the queue's two condition variables with single signals, and a shutdown that
  changes `_flag` and broadcasts without the lock;
* ownership of connections: the map and the queries share a connection by
  `shared_ptr`, whichever thread lets go last closes the descriptor, the kernel
  reuses the number at once, and functors refer to the object by raw pointer;
* events of one `epoll_wait` batch handled after others of the same batch have
  changed the map;
* the eventfd protocol (read, then swap, against append, then write) and the
  timerfd's (read, then update, against an interval that ends meanwhile);
* non-blocking reads and writes of any size, and a peek whose failure is taken
  for a length;
* copies of the cache manager that share list nodes, and a flag protocol built
  from busy waiting;
* index arithmetic: the merge of posting lists, the deduplication of a vector
  that shrinks while it is traversed, files whose fields are told apart by
  blanks, pages whose fields are cut out by the length of another tag;
* in the libraries: text translated in place, nodes that are moved and freed
  and whose memory is used again, errors deep inside nested elements, runes that
  do not decode, dynamic programming over overlapping words.

What makes each part correct: the pool loses, repeats and reorders no task and
never sleeps on work; the server answers every query to the client that asked
it, keeps a descriptor open exactly as long as someone refers to its connection,
and survives its clients; bytes come out in the order they went in; the merge
returns documents of the intersection and the ranking puts the best first; the
cache is a least-recently-used list; the deduplication leaves no two similar
pages and loses none without a twin; what is read back from the index and the
page library is what was written; every cut of a sentence spells the sentence
and is the best there is; a document that is printed and parsed again is the
same document, and no node is lost or freed twice.

## The modules

    TaskBuffer      <- implemented by -  ThreadPool       - ThreadPoolProofs
        |  actions used by
    SearchServer    - implements ->      QueryService     - SearchServerProofs
    LineIO          (the bytes below SearchServer's lines) - LineIOProofs
    ExecuteQuery    <- extended by -  QueryAnswer         - QueryAnswerProofs
    QueryCache      - implements ->      LruCache         - QueryCacheProofs
    CacheManager                                          - CacheManagerProofs
    Caches          <- QueryCache, CacheManager
    PageDedup       <- extended by -  SearchIndex         - SearchIndexProofs
    Utf8 <- DictTrie <- Segments <- Jieba <- JiebaInvariants - JiebaProofs
    XmlText <- XmlValues <- XmlTree <- XmlPrinter <- XmlDocument <- PageLib
    Offline         <- PageLib, SearchIndex

`MCQueryAnswer`, `MCSearchIndex`, `MCJieba`, `MCPageLib` and `MCOffline` hold the
definitions that their configurations need: posting lists, pages, dictionaries,
tokens, feeds and file systems.

**TaskBuffer** is the promise of the pool: `Put`, `Take`, `Finish` on a bounded
FIFO queue and one hand per worker.

**ThreadPool** is the pool itself. `queue` is `_que`, `hand[w]` the local
`ptask`, `flag` is `_flag`, `isExit` is `_isExit`. `push` is one step, since the
mutex is held throughout (`PushEnqueue` with its `notify`, or `PushWait`). `pop`
is split into lock, test, wait and take, because `TaskQueue::wakeup()` changes
`_flag` and broadcasts without the lock and can fall between any two of them.
`wakeup()` itself is two steps. Both condition variables may wake spuriously.
Each task is submitted once. The unlocked `empty()` in `stop()` is one atomic
read; this stands for what the deque really does while its size stays below the
capacity of one block (63 pointers; the server's queue holds one).

**QueryService** is the server as a client sees it: a greeting, then for each
line, in order, one or more answers.

**SearchServer** is the loop, the workers, the kernel's descriptor table and the
clients. One handler is one action where no other thread can observe its middle;
`sendInLoop` is two (append, eventfd), and so are `handleRead` and
`doPendingFunctors`. The pool is `TaskBuffer`'s actions. A client connects once
and so also names its connection object; `fdTable` is the kernel's view, `sockfd`
the number the object holds, still readable after destruction. A functor whose
object is gone (`RunDangling`) may crash, do nothing, or write to any open
descriptor. A write to a closed peer is swallowed once and after that may raise
SIGPIPE. Lines arrive whole and answers fit the send buffer (`LineIO` is about
what happens when they do not). `MaxReplies` bounds the replies of a query:
`process()` sends one for each unknown word and one more.

**LineIO** is one connection byte by byte. A byte is the pair of the line or
answer it belongs to and its place there. `readline` is a step per peek and
`readn`; a peek sees any prefix of the bytes on their way. When it fails with
EAGAIN its -1 becomes the largest `size_t`, and the search for a newline leaves
the buffer: the model lets it crash or find one (`PeekFails`, `ReadBehind`).
`writen` returns when the send buffer is full (`WriteFails`). The client is
`client.c`, which takes the first bytes of each answer for a length.

**ExecuteQuery** is `WordQuery::executeQuery`, one step per round of its loops.
Document ids stay below `0x7FFFFFFF`. The weight of a posting is represented by
the document it belongs to, so that a weight vector mixing documents shows.

**QueryAnswer** is `WordQuery::process`: cache, unknown words, the merge, the
ranking with its comparison that holds for equal elements, the list of the best
documents, the new cache entry. `known` are the words in the table; one of them
may have an empty set of documents, which leaves a query without an answer but
is no unknown word. tf and idf are small integers.

**LruCache** and **QueryCache**: the promise and the pointers of `Cache`. Nodes
are addresses that `new` returns and `delete` gives back; the heap has only the
nodes that exist, so that any use of a deleted node is an error of the run.
`remove(node); setHead(node)` is one action, as both belong to one call.
`readFromFile` is a sequence of `set` calls that ends with `LoadDone`. The
capacity test counts the map, as the code does.

**CacheManager** is the server's manager, the copy of it in every query, and the
timer thread. A copied cache shares its nodes with the original, hence a cache
is the identity of its node set, a counter and two flags. The timer thread is
started before the server serves; it arms the timerfd, reads the counter that
the kernel (`Expire`) adds to, and only then calls the update, which interleaves
with everything else. The update always finds nothing new and returns at
`CacheManager.cc:63` without clearing the tags it has set; `UpdateFindsNothing`
is what allows the lines after it to be left out. **Caches** puts the two
modules into one run. A behaviour looks at one of them at a time, the calls of a
cache or the copies of the managers: a cache is used by one thread, and all that
the managers need of it is whose nodes it has.

**PageDedup** is `cutRedundantPages`, one step per round of either loop, over
every library and every similarity `operator==` can yield: symmetric, not
transitive, and reflexive except for pages without top words. The model stops at
the first read beyond the vector.

**SearchIndex** goes on from there: `buildInvertIndexTable` (with weights that
are undefined when a page's sum is 0), `storeOnDisk`, and the constructor of
`WordQuery` reading the files field by field as `operator>>` does. A page's most
frequent words are a constant, of which there are at most `TopWordsMax`
(`TOPK_NUMBER`), as `calcTopK` cuts them off (`IndexAssumption`).

**Utf8**, **DictTrie**, **Segments**, **Jieba** are cppjieba as the programs
construct it. `Utf8` decodes and encodes as `TransCode` does, including what it
does to bytes that are not UTF-8. `DictTrie` loads dictionaries line by line
into units that a trie points to, `LoadDict`'s struct of the line before being
part of the state; a user word may be added at any later time. `Segments` has
the cuts as functions: the graph of words, the best path by weight, the full cut,
the Viterbi path, and their combinations. `Jieba` is the object: a call takes a
sentence, `PreFilter` hands out its ranges one step at a time, and the result
grows with them. Weights are the frequencies, which are added and compared only.
Recursion is written as recursive functions over positions. Lines and sentences
are any sequences of bytes (`DictAssumption`, `JiebaAssumption`); `BytesKept`
speaks of those that are UTF-8 (`Utf8Text`), as the others come back changed:
the decoder takes any byte for a continuation. A unit that the trie points to is
a place in one of the two containers. That their elements stay where they are
is taken from the code and would not show: the vector is complete before the trie
is built, and added words go to the end of a deque.
**JiebaInvariants** has the invariants of the proofs.

**XmlText** is a `StrPair`: bytes in the file's buffer, a read pointer, a write
pointer and the flags; `GetStr` is a step per character, entity or newline, then
the collapsing of white space. `PrintString` is the printer's escaping.
**XmlValues** has the conversions of numbers. **XmlTree** has the four pools with
their free lists and the nodes with parent, first, last, previous and next, in
memory that is used again after a node is freed; attributes are a sequence.
**XmlPrinter** has the growing buffer, the stack and the visitor, and the lexer
that tells what a parser would find in the printed text. **XmlDocument** is the
parser, a token at a time (the recursive `ParseDeep` calls are a stack, the
error path is `Unwind`), `SaveFile` and loading again, and every method that
changes a document. A token has its error with it where it is ill-formed; the
scanning of its characters is left out. A node that is in the tree may be moved
anywhere but below itself. `InsertAfterChild` looks for the node behind the given
one after it has taken the moved node out (`tinyxml2.cc:881-892`): where the two
are neighbours and the moved node was last that is a null dereference, and a node
put behind itself follows itself from then on. `InsertAfterBreaks` is both, and
the run of the document ends there.

**PageLib** is the offline program from `main` to the page library: the
configuration, the directory walk (`readdir` by `readdir`, with the working
directory and the result of a failed `stat`), the feeds loaded by XmlDocument's
parser, `parseRss` with its null pointers, `makePages` and `store`. `WebPage` of
both programs (`processDoc`, `calcTopK`, `summary`) is applied to the pages.
**Offline** is the whole program: the page library, and the index. They meet in
the files of the library only, and the index is built for every library rather
than for those that the feeds of the run yield; a behaviour is one of the first
half or one of the second.

## The runs

| Run | Instance | Shows |
|---|---|---|
| `pool` | 2 workers, 4 tasks, queue of 2 | no `front()` on an empty queue, no lost wakeup, nothing discarded by `stop()`; refinement of `TaskBuffer`; every accepted task is processed; `stop()` returns unless its broadcast is missed |
| `server_patient` | 2 clients, 2 lines each, 2 replies, 1 worker, queue of 1 | as `MainServer` configures it, with clients that wait for their answers: the server never stops, refines `QueryService`, answers every line, closes only after the peer |
| `server_hangup` | 2 clients that leave at will and share 1 descriptor, 2 workers | descriptor ownership, the two assertions, validity of every event of a batch, no lost eventfd wakeup; a descriptor is released in the end |
| `line_io` | 2 lines of 1 or 3 bytes, buffer of 3, answers of 3, send buffer of 4 | bytes in order, lines whole, answers in order; the buffer is left only inside a line; every line is read and every round of the client ends |
| `query_answer` | 3 documents, up to 3 words, every index | the merge stays in bounds, is sound and skips nothing; the ranking, the best documents, the cache entry |
| `query_intersection` | 3 documents, 2 words | **violated**: the merge stops too early and misses common documents |
| `caches` | 3 entries, 4 queries, 2 answers, 4 nodes; managers with 4 queries (on disk, found, both, neither), queue of 2, 2 unread expirations | list, map and heap agree; refinement of `LruCache`; nodes shared by copies are never relinked; nothing to merge; nothing spins on a left-over tag; no expiration is swallowed |
| `cache_forgets` | 1 query | **violated**: the update reports nothing new although an answer was cached |
| `segment` | 6 dictionaries, 2 user dictionaries, 2 models, texts up to 5 runes, 9 kinds of calls | every cut spells the sentence, keeps undecodable bytes out only, finds all words, is the best; duplicates and added words keep every pointer valid |
| `offline` | texts of 3 pieces, documents of 4 tokens and four given ones, 2 changes; file systems with 2 of 9 feeds; libraries of up to 4 pages over 3 words | the XML library's texts, links, pools, errors, printing and editing; the scan, the items, the crashes, the pages and their fields in both programs; the deduplication, and that what the server reads from the index files is what was built |
| `xml_move` | a small document, 2 changes | **violated**: a node that is already in the document is not moved |
| `xml_duplicates` | documents of 2 tokens | **violated**: a duplicate attribute is detected |

Why the bounds suffice. Pool: two workers are needed for a signal to reach the
wrong thread, a queue of two for order to matter, four tasks to fill queue and
hands and still block the producer. Server: two clients let a descriptor change
hands and two connections meet in one batch; two lines let a client have one
query queued and one in process; two workers race for the last reference. Line
I/O: a line can be shorter than, as long as, and (two together) longer than the
buffer, and an answer can be cut by the one before it. Queries: three documents
and three words include lists that are disjoint, nested, equal and empty, words
that repeat, an idf that is negative, and more documents than are listed. Cache:
three entries have a head, a middle and a tail; with four queries every set can
evict. Deduplication: three different pages are the least for which similarity
can fail to be transitive, and a fourth lets a moved page be moved again. Timer:
one unread expiration shows whether it is lost, a second that two are read as
one. Segmentation: words nest and overlap from three runes on, and a fourth
separates two of them; "1.11" and "11.1" have their point in either half. XML:
three pieces put a shortened one before a newline, a reference or an entity that
is not known, and a text to be printed has every character that is escaped and
both that end lines; four tokens nest two elements with something in the inner
one, or leave two open when the error comes; of the given files two are printed
and parsed again with texts, attributes and siblings, and two have more behind an
end tag that nobody waits for; two changes can insert a node and then move it,
also behind its own predecessor; pools of two items per block are used up and
used again. Names of elements are model values in documents that are made up. Page library: two feeds let the second one suffer from what
the first left, and one of the nine is the well-formed, one each for every way
to be incomplete. `UIntSize` is 2^24 in the run (2^32 in the code), which is
enough to overflow and to hold every code point.

Deadlock is checked where the system must always have something to do
(`server_patient`, the caches); it is off where a run may end: a stopped pool, a
process that was killed, a function or a program that has returned.

### The properties

A property of a run is often the conjunction of a few named parts, defined and
explained next to it in the module: the run checks them together, and each part but
the types has its own mutant, listed under the whole.

| Property | Parts |
|---|---|
| `PopIsSafe` | types, `FrontOnNonEmpty`, `DrainedBeforeExit` |
| `LoopIsSafe` | types, `AssertionsHold`, `EventsStayValid` |
| `MergeIsRight` | types, `InBounds`, `Sound`, `NoneSkipped` |
| `RankingIsRight` | types, `RankedBestFirst`, `ScoresAllOrNone`, `BestAreListed` |
| `DedupIsRight` | types, `NoSimilarPairLeft`, `DroppedHaveTwin` |
| `FilesReadBack` | types, `PagesReadBack`, `PlainWordsReadBack`, `NothingHiddenOtherwise` |
| `IndexEnds` | termination, `OverrunExplained` |
| `CacheIsWhole` | types, `MapOwnsNodes`, `ListIsWhole` |
| `CopiesStayApart` | types, `SharedNodesUntouched`, `UpdateFindsNothing` |
| `ReadlineIsRight` | types, `BytesInOrder`, `LinesWhole` |
| `LinesAreRead` | liveness, `OverrunsOnlyInsideLine` |
| `DictionaryIsRight` | types, `PointersValid`, `LatestWins` |
| `NothingDropped` | `WordsSpellText`, `BytesKept` |
| `CutsAreBest` | `BestCut`, `BestPath` |
| `WordsFound` | no empty word, `AllWordsFound`, `UncoveredRunesKept`, `SubwordsFound`, `LevelsNest`, `TagsFollowRunes` |
| `TextIsRight` | `UnreadBytesIntact`, `TextTranslated`, `PrintedTextReadBack` |
| `WritingReadsBack` | `PrintedAgainEqual`, `WritesReadBack` |
| `TreeIsWhole` | types, `LinksConsistent`, `PoolsBalanced`, `NothingLost`, `MovedOrBroken`, `WalksAgree` |
| `FeedsBecomeItems` | `ScanFindsFeeds`, `ItemsOfFeeds`, `OnlyIncompleteFeedsCrash` |
| `PagesAreRight` | `LibReadBack`, `OnlineFieldsDisplaced`, `TopWordsMostFrequent`, `SummaryQuotes` |

### Fairness

Every thread is scheduled (weak fairness of the loop's, of each worker's and of
the timer thread's steps), `process()` returns, and a mutex that becomes free
again and again is eventually obtained: the lock steps of `ThreadPool` are
strongly fair. Nothing makes a client send or leave, nobody must call `addTask`
or `stop`, no interval of the timer need end, spurious wakeups need not happen.
In `SearchServer` the queue is `TaskBuffer`, and a worker's `Take` under weak
fairness is what `EveryTaskProcessed` justifies. In `LineIO` bytes that were
sent arrive, and the client reads what it waits for. `CachesSpec` has the
managers' threads run (`ThreadsRun`); a cache need not be called. Sequential
programs (`AnswerSpec`, `Jieba`, and in `OfflineSpec` the index) take their next
step.

### Findings

* `executeQuery` ends as soon as any iterator, not only that of the shortest
  list, has advanced as often as the shortest list is long
  (`online/src/WordQuery.cc:294`): words found in {2} and {1, 2} give no result.
* A query works on a copy of the cache manager (`online/include/WordQuery.h:48`),
  so that no answer is ever found again or reaches the cache file.
* `InsertAfterChild` is said to move a node that is already in the document
  (`offline/include/tinyxml2.h:806-807`). It takes the node out and then goes
  through `afterThis->_next` (`offline/src/tinyxml2.cc:888`), which is null by
  then if the node was last and followed `afterThis` already. A node put behind
  itself, unless it is last, becomes its own successor.
* A duplicate attribute "will not be detected", says a comment
  (`offline/src/tinyxml2.cc:1676-1678`); five lines above it the element is
  refused for it (`:1671`).

Other behaviour that the models show is stated by the properties as it is:

* a query with unknown words gets several answers, and `client.c` takes the
  first bytes of each for a length that nobody sends (`RoundsEnd`);
* `cutRedundantPages` reads beyond the vector when the last page is removed as a
  duplicate (`OverrunExplained`);
* a line that is only half there when it is read, or an answer larger than the
  send buffer, is mangled (`OverrunsOnlyInsideLine`, `AnswersInOrder`);
* the server cuts the content and the link of a page by the length of `<docid>`
  (`OnlineFieldsDisplaced`); an incomplete feed ends the offline program
  (`OnlyIncompleteFeedsCrash`); of directories with links in them `ScanFindsFeeds`
  says nothing;
* the full cut loses runes: where a rune is no word, `wordLen` still has the
  length of the last word, and the runes after it are taken for covered
  (`UncoveredRunesKept`, `FullSegment.hpp:70`);
* a number with its point in its first half, "1.11", is tagged English, though
  the comment at `PosTagger.hpp:70` speaks of letters (`TagsFollowRunes`);
* in tinyxml2 an end tag that nobody waits for ends the parse without an error,
  and what is behind it is neither read nor checked; a declaration is accepted
  at any depth while the document has no children (`LoadedAsWritten`);
* a carriage return in a text, from `&#13;`, is printed as it is and read back as
  a line feed (`PrintedTextReadBack`); an unknown entity behind a shortened text
  leaves an old byte in place of its ampersand (`TextTranslated`).

## The proofs

They hold for every value of the constants, under the assumptions named in the
modules (`PoolAssumption`, `QueryAssumption`, `AnswerAssumption`, `DedupAssumption`,
`IndexAssumption`, `CacheAssumption`, `LineAssumption`, `ManagerAssumption`,
`ServerAssumption`, `DictAssumption`, `JiebaAssumption`).

The combined properties are theorems too: `PopStaysSafe` (`PopIsSafe`),
`MergeStaysRight` (`MergeIsRight`), `DedupStaysRight` (`DedupIsRight`),
`CopiesStay` (`CopiesStayApart`).

**ThreadPoolProofs**: `PoolTypes`, `PopIsDefined` (`FrontOnNonEmpty`),
`NoLostWakeup` (`NobodySleepsOnWork`), `StopDrainsFirst` (`DrainedBeforeExit`),
`PoolImplementsBuffer`. None of these is inductive. The invariant adds that a
worker between lock and release owns the mutex and all others are outside, which
keeps the answer of the emptiness test valid until the wait; that `flag` falls
only after the queue was drained and nothing is pushed any more; that each task
is in one place only; and, for wakeups, that when the queue is not empty some
worker is on its way to it. The refinement follows step by step: push is `Put`,
take is `Take`, process is `Finish`, all else stutters.

**QueryAnswerProofs**: first the merge, `MergeTypes`, `MergeStaysInBounds`,
`MergeIsSound`, `MergeSkipsNothing`. The invariant says that no iterator has
advanced as often as the shortest list is long while the merge goes on, and that
everything already reported is smaller than what every iterator points at; with
ascending lists the smallest current id cannot be in the lists that are ahead of
it. Then the whole answer, which implements the merge's specification
(`AnswerRunsExecuteQuery`): `AnswersListTheBest` (`RankingIsRight`) and
`OnlyAnswersAreCached` (`AnswersAreCached`), for every idf, frequency and limit.
The latter says of each reply what it is: the cached answer, or an apology for
each word that is not in the table and then one reply more, which is an answer
exactly if every word has documents.
A document's vector has length 0 only if no word of the query has an idf, and
then all have; apart from that, scores are compared as fractions. So
`ScoresLess` is a strict weak order (`ScoresOrdered`), and inserting with the
complement of its converse, which holds for equal elements, keeps the list
sorted and complete (`PlaceKeepsOrder`, `SortIsRight`).

**QueryCacheProofs**: `CacheStaysWhole` (`CacheIsWhole`) and
`CacheImplementsLru` (`ImplementsLru`), for any capacity, nodes and queries. The
invariant is that some sequence lists the nodes of the heap once each and that
every `prev` and `next`, the two ends and the map agree with it; `remove` and
`setHead` take a node out of that sequence or put it in front, and `get` and
`set` are then what `LruCache` does with its list of entries. The walks of
`FromHead` and `FromTail` meet exactly that sequence.

**LineIOProofs**: `LinesAreReadRightly` (`ReadlineIsRight`), `OverrunsInsideLine`
(the safety part of `LinesAreRead`) and `AnswersArriveInOrder`
(`AnswersInOrder`), for lines, answers and buffers of any length. Two invariants
suffice, as reading and writing share nothing: what was taken, what the buffer
holds and what is on its way are together what was written, with no newline in
the buffer; and the unsent rest of an answer begins where the stream ends.

**SearchIndexProofs**: first the deduplication, `DedupTypes`, `DedupIsComplete`
(`NoSimilarPairLeft`), `DedupKeepsTwins` (`DroppedHaveTwin`), together
`DedupStaysRight` (`DedupIsRight`). The invariant says which pairs have been
compared: all with a first index below `i`, and those of `i` with an index below
`j`. Moving the last page into position `j` preserves it because that page comes
from beyond `j`. A page that stands for dropped ones has an index of at most `i`
and is never moved again. So the result is right even where the function then
reads beyond the vector. Then the index, which starts with such a run on the
similarity of the pages' words (`IndexRunsDedup`): `FilesAreReadRightly`
(`FilesReadBack`), for every library, every choice of blank words and every
order of the hash table. The invariant (`FilesInv`) follows the data from hand
to hand: no two pages have the same id, so the sort has one result
(`SortedFacts`) and each offset leads to its page's text (`TextsOnFile`); every
word that is no longer `unstored` has its line; and of the lines read so far,
each plain word is in the table with what can be read of its postings, except
the word of the line the reader is at, of which it has the first postings and
the line the others. An undefined weight is traced back to a page all of whose
words are in all pages but one.

**CacheManagerProofs**: `ManagerTypes`, `SharedNodesStay`
(`SharedNodesUntouched`), `UpdatesFindNothing` (`UpdateFindsNothing`), for any
queries and any number of tasks. The invariant says what a copy of the manager
looks like at each place of a worker: one cache without new entries before
`getCache`, and after it a second one with the task's own nodes, which is the
one `thread2Cache` names. The server's manager is never given a second cache, so
that its counters stay 0.

**SearchServerProofs**: `OwnershipHolds` (`DescriptorOwnership`),
`LoopStaysSafe` (`LoopIsSafe`), `NoLostEvent` (`WakeupNotLost`),
`OnlyPeersClose` (`ClosedOnlyByPeer`), for any number of clients, workers,
descriptors, lines and replies, and for clients that wait as well as clients
that hang up. The invariant (`ServerInvariant`) adds what each needs of the
others: every task is in one place only, so that finishing one drops exactly one
reference; a connection in the backlog is in no table, in the map or a task, so
that accepting it cannot revive anything; an open descriptor belongs to one
connection, so that handling the event of one leaves the other events of the
batch true; nobody has read more lines than were sent, so that a readable event
without a line means a closed peer. `PatientServerStaysUp` (`ServerStaysUp`)
assumes besides that clients are patient and have a descriptor each (`Roomy`):
whoever has something in flight is then still there, waits to be accepted or is
in the map, so that no functor finds its connection gone and no write its peer;
and the connections in the table are others than the one to be accepted, which
leaves a descriptor for it.

The last part is `ServerImplementsService` (`ImplementsService`), for one
worker. The invariant says that what a client's lines have become passes the
server in order (functors running, functors pending, the worker's task, the
queue, the task being added), that there is something for every line between the
last one answered and the last one read, and that a worker does not finish a
task without a reply. The head of the functors is then of the line last answered
or of the next one. Accepting is the service's greeting, running a functor its
`Deliver`, and all other steps of the server stutter.

**JiebaProofs**: `DictionaryStaysRight` (`DictionaryIsRight`) and
`NothingIsDropped` (`NothingDropped`), for every dictionary, user dictionary,
model, sentence and call, for any number of added words, and whatever an
uninitialised weight is. The invariant (`JiebaInv`) has two parts. `DictInv`
says that the trie leads each word to the latest of the first so many entries
and no other node anywhere, so many being all entries once the dictionary is
ready; inserting one more entry moves its own word only (`InsertHolds`). `CallInv`
says that the words so far spell the runes handed out, in the cuts that are to
keep everything, and that the result is their encoding. Decoding, `CutByDag`,
`HMMCut` and `MixCut` all jump forward through a sequence and collect a piece at
each stop; where every piece spells what its jump passes, the pieces spell the
whole (`CutSpells`). For `CutByDag` this needs the dictionary, because the code
goes on behind the word of the unit it found, and that the ends `CalcDP` chose
lie within the text; for `InternalCut` that the last state is E or S, whatever
the probabilities are (`ViterbiLast`). At the end encoding undoes decoding,
character by character, up to where decoding fails, which in UTF-8 is before a
character of four bytes or in the last two bytes (`TextComesBack`,
`FailsNearEnd`).

That the cuts are best ones (`CutsStayBest`, the property `CutsAreBest`) is
proved for every dictionary, every sentence and every model whose numbers are
logarithms of probabilities, thus never above 0. `JiebaAssumption` says so,
because a sum of other numbers could leave the range that `MIN_DOUBLE` stands
for. The invariant (`BestInv`) adds to `JiebaInv` above all `DictMore`, that the
trie has each beginning of its nodes and that the frequencies do not add up to
0; `CursorInv`, that the cursor stands next to a separator; and `ModelInv`, that
the numbers of the model in memory are logarithms of probabilities too. `CalcDP`
fills its table from the right with the best weight of what follows
(`CalcDPIsTable`), so its cut is a best one of its range (`MPCutIsBest`); since
no word lies across the border of two ranges (`NoneAcrossBorder`), best cuts of
the ranges join to a best one of the whole (`WaysMeet`, `BestOfParts`). The
columns of `Viterbi` keep the best path into each state (`KeepsBest`,
`ViterbiIsBest`), and each stretch outside ASCII lies in one range, so that it
is cut by one call of `Viterbi` (`StretchParts`).

That words are found (`WordsStayFound`, the property `WordsFound`) is proved
call by call. For `CutAll`, what is pushed at a rune is followed through the
walk (`FullWordsFacts`), with what `maxIdx` says of the runes before it: it is
beyond a rune exactly if a word covers that rune, or if the last word found was
counted once more at a rune that is no word (`AloneTells`; in the property's
terms `CoveredOccurs`, `EchoedOccurs`). This gives the words and the lone runes
of a range (`FullCutFacts`). In two ranges side by side the same words begin and
the same runes are lone as in each alone (`PartsAgree`, `LoneOfPart`), so the
claim grows range by range (`AllGrows`). The long words
of the search cut are cut again, and that finds all their parts
(`FullFindsParts`, `QueryFindsParts`); the words of each level are cut from
words of the level before (`SmallerFacts`, `LevelGrows`). For tags, each word of
`MixCut` is a word of the dictionary or has one of the shapes the model's path
leaves, for which the rules of `SpecialRule` are read off (`TagWords`,
`TagOfFits`). `FindsInv` joins the parts.

The prover cannot apply an induction rule. Where a proof is about data (the sum
of the weights, the sort, the flattening of messages, the walk along the list),
induction is by least counterexample: the natural numbers are well founded, so
the set of those for which the claim fails has a least element or is empty
(`LeastNat`). The functions concerned are written as recursive functions, not as
RECURSIVE operators, and are first shown to exist.

Only model-checked:

* all liveness, since fairness and ENABLED are beyond the prover (`IndexEnds`
  and `CallsReturn` among it);
* the XML library and the page library (`TextIsRight`, `TreeIsWhole`,
  `WritingReadsBack`, `LoadedAsWritten`, `FeedsBecomeItems`,
  `PagesAreRight`). The tree, the printer, the documents and the page library
  are built from RECURSIVE operators over trees, about which the prover can show
  nothing; the texts (`XmlText`) are not, and a proof of `TextIsRight` is still
  to be written.

## Not modelled

* `unloop()`, `MainServer::stop()`, the timer's `stop()` and the destructors:
  `main` never leaves the loop. `socket`, `bind`, `listen`, `epoll_create`.
* `periodcUpdate` after line 63 and `Cache::writeToFile`: unreachable as the
  program is wired, by theorem `UpdatesFindNothing`.
* `Config`, the online copy of the configuration reader; lists of stop words are
  constants. `Mylog`, `InetAddress`: log lines only.
* The text of JSON answers, and of log and console output.
* Parts of the vendored code that neither program calls: limonp's hashes, queues,
  threads and logging, cppjieba's keyword extraction. Of tinyxml2, the scanning
  of characters within a token and the file handling of `LoadFile`.
* The memory that each query's cache leaks (`Cache` has no destructor).

## Order of the work, and what remains

Done, in this order: thread pool, server, query merge, deduplication, cache,
cache manager; then line I/O, the index and its files, the whole answer, the
segmentation, the XML library, the page library, the timer thread and the proofs
about the cache manager and the server; then the proofs about the cache, line
I/O, the answer, the index files and the segmentation, at last that its chosen
cuts are best ones and that the others find all words. What would come next: a
proof that a text of the XML library is translated as it should be.
