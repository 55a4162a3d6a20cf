SPECIFICATION FairSpec
CONSTANTS
  a = a
  b = b
  c = c
  Tasks = {a, c}
  Processes = {c}
  RunTimeout = {a}
  CancelTimeout = {a, c}
  MaxRunning = 1
  MaxStack = 2
  NoTask = NoTask
  HeadNode = HeadNode
PROPERTIES EmptyIsReported TimeoutsEndTasks
