SPECIFICATION Spec
CONSTANTS
  Base = 4
  Bounds <- MCBounds
INVARIANTS
  RowsUnderOwnKey
  LookupAgreesWithScan
  
  NullIsUnknown
  
  ParserFollowsGrammar

  
