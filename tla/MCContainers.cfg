SPECIFICATION Spec
CONSTANTS
  Nodes <- MCNodes
  Key <- MCKey
  NodesOf <- MCNodesOf
  Null = Null
  MaxVersion = 2
INVARIANTS TreeOK FindOK
PROPERTIES FlushExact Refinement
