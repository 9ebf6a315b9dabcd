SPECIFICATION Spec
CONSTANTS
  Keys = {k1}
  Values = {v1}
  None = None
  Bounds <- TimestampBounds
INVARIANT Recoverable
CHECK_DEADLOCK FALSE
