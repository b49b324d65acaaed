SPECIFICATION FairSpec
CONSTANTS
  big = big
  empty = empty
  path = path
  Targets = {path}
  Occupied = {}
  Uploads = {big, empty}
  Declared <- MCDeclared
  Requests <- MCRequests
  WorkerCount = 2
  QueueSize = 1
  MaxUploads = 1
  MaxBytes = 3
  MaxParked = 1
  MaxFaults = 1
INVARIANTS UploadInvariant TempFilesOwned EndsOnce
PROPERTIES RequestsAnswered
CHECK_DEADLOCK FALSE
