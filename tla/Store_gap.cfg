SPECIFICATION Spec
CONSTANTS
  Keys = {k1}
  Values = {v1}
  None = None
  HasParent = TRUE
  MaxLog = 2
  MaxBatch = 1
  MaxFaults = 2
  Faults = {"process_crash", "gap_crash"}
INVARIANT AckedWritesSurvive
CHECK_DEADLOCK FALSE
