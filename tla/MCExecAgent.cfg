SPECIFICATION Spec
CONSTANTS
  TaskIDs = {t1, t2}
  Results = {1, 2}
  Unknown = Unknown
  NoResult = NoResult
  Capacity = 1
  Retain = 0
  MaxNow = 1
  MaxSaveFails = 1
  Readers = {r1, r2}
  Workers = 2
  FinishAttempts = 2
  SeenLimit = 1
  MaxRuns = 2
  MaxCrashes = 1
SYMMETRY Symmetry
INVARIANTS ExecInvariant
PROPERTIES KeepsServicePromise 
CHECK_DEADLOCK FALSE
