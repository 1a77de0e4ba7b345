\* Documents of up to two tokens.
SPECIFICATION LibSpec
CONSTANTS
 UIntSize = 16777216
 Pieces = {}
 MaxPieces = 3
 PlainChars = {}
 MaxPlain = 4
 ItemsPerBlock = 2
 InitialSize = 2
 Tokens <- MCTokens
 MaxTokens = 2
 Files = {}
 NameA = NameA
 NameB = NameB
 Names = {NameA, NameB}
 Values <- MCValues
 MaxNodes = 5
 MaxEdits = 0
 ConfigFiles = {}
 FileSystems = {}
 FeedOf <- MCFeedOf
 TopK = 2
 StopWords = {" "}
 Queries = {}
 SummaryLines = 2
INVARIANTS
 DuplicatesNotDetected
CHECK_DEADLOCK FALSE
