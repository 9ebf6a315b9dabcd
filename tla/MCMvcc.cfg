SPECIFICATION Spec
CONSTANTS
  Keys = {k1, k2}
  Values = {v1}
  None = None
  Bounds <- MCBounds
INVARIANTS
  TypeOK
  ShowsCommitted
  HandledFaultsRecover
  IdsNotReused
  ActiveIsOpen
PROPERTY ImplementsSI
SYMMETRY KeySymmetry
CHECK_DEADLOCK FALSE
