SPECIFICATION ClientSpec
CONSTANTS
  Nodes <- MCNodes
  Values = {1, 2, 3}
  Nil = Nil
  Bounds <- MCBounds
INVARIANTS
  
  CheckerDecides
PROPERTY
  CallsReturn
CHECK_DEADLOCK FALSE
