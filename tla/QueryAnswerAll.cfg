\* Every query of up to three words over every index of three documents; words
\* repeat, answers list two documents.
SPECIFICATION AnswerSpec
CONSTANTS
  DocIds = {1, 2, 3}
  Postings <- MCPostings
  MaxWords = 3
  MaxTf = 2
  Idf <- MCIdf
  Limit = 2
  OldAnswer <- MCOldAnswer
INVARIANTS
  MergeIsRight
  RankingIsRight
  AnswersAreCached
PROPERTIES
  Answered
CHECK_DEADLOCK FALSE
