SPECIFICATION FairSpec
CONSTANTS
  Keys = {k1, k2}
  Values = {v1}
  None = None
  HasParent = TRUE
  MaxLog = 2
  MaxBatch = 2
  MaxFaults = 2
  Faults = {"process_crash", "power_loss", "sync_error", "file_error", "append_error", "zero_tail", "gap_crash"}
INVARIANTS
  TypeOK
  HandledFaultsLoseNothing
  HandledFaultsRecover
  RecoveryAppliesInOrder
PROPERTIES
  PublishedBeforeTruncate
  ReadyAgain
CHECK_DEADLOCK FALSE
