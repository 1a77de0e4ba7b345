\* Two words are enough: one that occurs in few documents, one in many.
SPECIFICATION AnswerSpec
CONSTANTS
  DocIds = {1, 2, 3}
  Postings <- MCPostings
  MaxWords = 2
  MaxTf = 1
  Idf <- MCIdf
  Limit = 2
  OldAnswer <- MCOldAnswer
INVARIANTS
  Complete
CHECK_DEADLOCK FALSE
