SPECIFICATION LogSpec
CONSTANTS
  TaskIDs = {t1, t2, t3}
  Results = {r1}
  Unknown = Unknown
  NoResult = NoResult
  Capacity = 2
  Retain = 1
  MaxNow = 2
  MaxSaveFails = 2
SYMMETRY TaskSymmetry
INVARIANTS MemoryMatchesDisk
PROPERTIES ProtectedSurvives
CHECK_DEADLOCK FALSE
