\* Six dictionaries, two user dictionaries, up to two words added later; all short
\* texts over four characters, some longer ones, and some that do not decode.
SPECIFICATION Spec
CONSTANTS
  DictFiles <- MCDicts
  UserFiles <- MCUsers
  UserWords <- MCUserWords
  MaxInserts = 2
  Garbage = {0, 3}
  ModelFiles <- MCModels
  Sentences <- MCSentences
  Calls <- MCCalls
INVARIANTS
  DictionaryIsRight
  NothingDropped
  CutsAreBest
  WordsFound
PROPERTIES
  CallsReturn
CHECK_DEADLOCK FALSE
