SPECIFICATION FairSpec
CONSTANTS
  t1 = t1
  t2 = t2
  l1 = l1
  NoLease = NoLease
  Tasks = {t1, t2}
  Leases = {l1}
  Requests <- MCRequests
  Logs <- MCLogs
  Renewals = {3}
  DefaultTimeout = 1
  RevokeTTL = 1
  CancelTTL = 1
  MaxNow = 2
  MaxOrders = 2
INVARIANTS LiveRunIsWatched OrderedRunStops OutcomeHasCause
PROPERTIES StopIsObeyed HoldIsReleased
CHECK_DEADLOCK FALSE
