SPECIFICATION Spec
CONSTANTS
  Chunk = 16
  LenMod = 64
  Names = {"", "bb"}
  NameLen <- MCNameLen
  Fields <- MCFields
  Policy <- MCPolicy
  ArrayPolicy <- MCArrayPolicy
  Info <- MCInfo
  PlainIds = {"x", "y", "z"}
  Texts = {0, 6}
  MaxDepth = 2
  MaxOps = 4
  MaxMessages = 2
INVARIANTS InBuffer RoundTrip ParseOK
CHECK_DEADLOCK FALSE
