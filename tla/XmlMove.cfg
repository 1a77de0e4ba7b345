\* A small document and up to two changes of it.
SPECIFICATION LibSpec
CONSTANTS
 UIntSize = 16777216
 Pieces = {}
 MaxPieces = 3
 PlainChars = {}
 MaxPlain = 4
 ItemsPerBlock = 2
 InitialSize = 2
 Tokens <- MCTokens
 MaxTokens = 0
 Files = {}
 NameA = NameA
 NameB = NameB
 Names = {NameA, NameB}
 Values <- MCValues
 MaxNodes = 5
 MaxEdits = 2
 ConfigFiles = {}
 FileSystems = {}
 FeedOf <- MCFeedOf
 TopK = 2
 StopWords = {" "}
 Queries = {}
 SummaryLines = 2
INVARIANTS
 NodesAreMoved
CHECK_DEADLOCK FALSE
