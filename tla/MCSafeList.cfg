SPECIFICATION ListSpec
CONSTANTS
  Elements = {a, b, c}
  ListHead = ListHead
  Null = Null
  MaxDepth = 3
SYMMETRY Symmetry
INVARIANT IteratorsOK
PROPERTY Refinement
