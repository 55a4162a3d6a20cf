SPECIFICATION Spec
CONSTANTS
  edge = edge
  level = level
  interval = interval
  NoFd = NoFd
  Fds <- MCFds
  Intervals <- MCIntervals
  FlagSets <- MCFlagSets
  KernelEvents <- MCKernelEvents
  MaxEvents = 2
  MaxStack = 4
INVARIANTS NotReentered NoLostEvent
PROPERTIES NoCallAfterDelete
