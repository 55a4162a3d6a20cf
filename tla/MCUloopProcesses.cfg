SPECIFICATION FairSpec
CONSTANTS
  Watchers = {v, w}
  Pids = {1, 2}
  PipeSize = 1
  MaxDepth = 2
INVARIANTS WatchersHaveChildren NoLostChild
PROPERTY ChildIsReported
