SPECIFICATION FairSpec
CONSTANTS
  Timers = {t1, t2}
  Msecs <- MCMsecs
  RunTimeouts <- MCRunTimeouts
  Ticks = {500}
  StartTime = 999000
  MaxTime = 1000000
  MaxDepth = 2
  INT_MAX = 32767
INVARIANTS ListOK NearlySorted
PROPERTIES NoOverdueLeft NeverEarly NeverOversleeps OverdueFires
