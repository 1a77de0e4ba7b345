\* The XML library and the page library, and every library of up to four pages
\* that the index is built for.
SPECIFICATION OfflineSpec
CONSTANTS
 UIntSize = 16777216
 Pieces <- MCPieces
 MaxPieces = 3
 PlainChars = {10, 13, 38, 60, 34, 108, 116, 59, 195}
 MaxPlain = 4
 ItemsPerBlock = 2
 InitialSize = 2
 Tokens <- MCTokens
 MaxTokens = 4
 Files <- MCFiles
 NameA = NameA
 NameB = NameB
 Names = {NameA, NameB}
 Values <- MCValues
 MaxNodes = 5
 MaxEdits = 2
 ConfigFiles <- MCConfigFiles
 FileSystems <- MCFileSystems
 FeedOf <- MCFeedOf
 TopK = 2
 StopWords = {" "}
 Queries <- MCQueries
 SummaryLines = 2
 Words <- MCWords
 Blanks <- MCBlanks
 Newlines <- MCBlanks
 TopWords <- MCTopWords
 TopWordsMax = 2
 Numeral <- MCNumeral
 TextLength <- MCTextLength
 Pages <- MCPages
 MaxPages = 4
INVARIANTS
 TextIsRight
 WritingReadsBack
 TreeIsWhole
 LoadedAsWritten
 FeedsBecomeItems
 PagesAreRight
 DedupIsRight
 FilesReadBack
PROPERTIES
 IndexEnds
CHECK_DEADLOCK FALSE
