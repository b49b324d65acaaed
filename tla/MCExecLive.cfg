SPECIFICATION FairSpec
CONSTANTS
  TaskIDs = {t1, t2}
  Results = {1, 2}
  Unknown = Unknown
  NoResult = NoResult
  Capacity = 1
  Retain = 0
  MaxNow = 0
  MaxSaveFails = 1
  Readers = {r1}
  Workers = 2
  FinishAttempts = 1
  SeenLimit = 1
  MaxRuns = 2
  MaxCrashes = 1
PROPERTIES TaskGetsSettled EventGetsAcked
CHECK_DEADLOCK FALSE
