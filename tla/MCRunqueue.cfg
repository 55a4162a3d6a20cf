SPECIFICATION Spec
CONSTANTS
  a = a
  b = b
  c = c
  Tasks = {a, b, c}
  Processes = {c}
  RunTimeout = {a, b}
  CancelTimeout = {a, b}
  MaxRunning = 1
  MaxStack = 3
  NoTask = NoTask
  HeadNode = HeadNode
SYMMETRY Symmetry
INVARIANTS Accounting NothingLeftBehind Resumable NoLostWakeup
