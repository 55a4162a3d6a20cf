SPECIFICATION FairSpec
CONSTANTS
  Watchers = {v, w}
  Signals = {2, 13, 17}
  Ints = {2}
  SIGCHLD = 17
  SIGPIPE = 13
  Dispositions <- MCHandled
  ListHead = ListHead
  PipeSize = 1
  MaxDepth = 2
INVARIANTS NoLostSignal HandlersOK
PROPERTY CancelEndsLoops
