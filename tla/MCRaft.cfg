SPECIFICATION Spec
CONSTANTS
  Nodes <- MCNodes
  Commands = {c1}
  Bounds <- MCBounds
INVARIANTS
  TypeOK
  
  
  StateMachineSafety
  LeaderCompleteness
  CommittedOnDisk
  PublishInRange
CHECK_DEADLOCK FALSE
