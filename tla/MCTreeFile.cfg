SPECIFICATION FileSpec
CONSTANTS
  MinDegree = 2
  NoValue = NoValue
  NoRoom = NoRoom
  Zero = Zero
  Torn = Torn
  PageSize = 94
  KeySize = 1
  Bounds <- MCBounds
  Capacity = 2
  Contents = {a}
  MaxPages = 3
  MaxClock = 4
  MaxErrors = 2
INVARIANTS
  TypeOK
  TreeIsMap
  Balanced
  SavedTreeLoads
  SmallEntriesFit

  
CHECK_DEADLOCK FALSE
