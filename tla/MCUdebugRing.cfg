SPECIFICATION RingSpec
CONSTANTS
  RingSize = 4
  DataSize = 8
  HeadMod = 64
  DataMod = 128
  StartHead = 62
  Lens = {1, 3}
  MinAlloc = 2
  Ticks = {1}
  Offsets = {5}
  Times = {4}
  Handle = 0
  MaxWrites = 1
  MaxEntries = 4
  MaxReads = 2
INVARIANTS Genuine InOrder NoLostNotify
CHECK_DEADLOCK FALSE
