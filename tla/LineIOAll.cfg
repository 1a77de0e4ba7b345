\* Two lines, ended or not, that fit the buffer or not; an answer is as long as
\* the send buffer, so that the second is cut if the first is still there.
SPECIFICATION FairSpec
CONSTANTS
  LineLens = {1, 3}
  MaxLines = 2
  BufSize = 3
  AnswerLen = 3
  SendSpace = 4
  FgetsLen = 3
  Header = 2
INVARIANTS
  ReadlineIsRight
  AnswersInOrder
PROPERTIES
  LinesAreRead
  RoundsEnd
CHECK_DEADLOCK FALSE
