SPECIFICATION Spec
CONSTANTS
  Nodes <- MCNodes
  Values = {a}
  Nil = Nil
  Bounds <- DeathBounds
INVARIANT
  LeaderDeathKeepsAcked
CHECK_DEADLOCK FALSE
