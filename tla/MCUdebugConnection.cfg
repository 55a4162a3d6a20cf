SPECIFICATION FairSpec
CONSTANTS
  Local = {a, b}
  Remote = {r}
  Handles = {0, 1}
  MaxCrashes = 2
  MaxEarly = 1
  MaxNews = 1
INVARIANTS ServerKnows HandleFresh
PROPERTY Reconnects
