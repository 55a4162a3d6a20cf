\* Both directions at once, with polls nested in callbacks: one read buffer of
\* several bytes, and a list of write buffers that grows, shrinks and recycles.
SPECIFICATION Spec
CONSTANTS
  RLen = 3
  WLen = 1
  SmallData = 2
  RMin = 1
  RMax = 1
  WMin = 2
  WMax = 3
  MaxIn = 1
  MaxOut = 1
  WriteLens = {3}
  RMod = 4
  WMod = 4
  MaxFrames = 3
INVARIANTS
  InOrder BuffersOK NoStall NewsIsDue
CHECK_DEADLOCK FALSE
