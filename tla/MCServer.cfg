SPECIFICATION Spec
CONSTANTS
  Nodes <- MCNodes
  Values = {a, b}
  Nil = Nil
  Bounds <- MCBounds
INVARIANTS
  TypeOK
  AckedOnMajority
  ReadsSeeAckedOtherwise
  CommittedAgree
PROPERTY
  RecordsAdvance
SYMMETRY ValueSymmetry
CHECK_DEADLOCK FALSE
