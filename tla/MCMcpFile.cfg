SPECIFICATION FairSpec
CONSTANTS
  l1 = l1
  l2 = l2
  Leases = {l1, l2}
  None = None
  Workloads <- MCWorkloads
  MaxSessions = 1
  ChunkWindow = 1
  MaxDownloads = 2
INVARIANTS FilesOwned RevocationCloses ReadIsItsOffset
PROPERTIES AllIsReleased
CHECK_DEADLOCK FALSE
