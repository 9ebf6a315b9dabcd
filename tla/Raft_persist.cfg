SPECIFICATION Spec
CONSTANTS
  Nodes <- MCNodes
  Commands = {c1}
  Bounds <- SmallBounds
INVARIANT SuccessOnDisk
CHECK_DEADLOCK FALSE
