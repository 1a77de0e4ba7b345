\* One query whose answer is found.
SPECIFICATION ManagerSpec
CONSTANTS
  QueryLines = {q1}
  OnDisk = {}
  Answerable = {q1}
  QueSize = 1
  MaxTasks = 1
  MaxExpired = 2
  NoTask = NoTask
PROPERTIES
  NothingToUpdate
