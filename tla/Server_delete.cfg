SPECIFICATION Spec
CONSTANTS
  Nodes <- MCNodes
  Values = {a}
  Nil = Nil
  Bounds <- DeleteBounds
INVARIANT
  NoRequestRefused
CHECK_DEADLOCK FALSE
