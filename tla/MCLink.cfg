SPECIFICATION FairSpec
CONSTANTS
  gateway = TRUE
  None = None
  event = event
  late = late
  Events = {event}
  Conns = {1, 2}
  Pulls = {3, 4}
  MaxRetries = 1
  SeenLimit = 1
  MaxPushed = 0
INVARIANTS TakenOnce
PROPERTIES AcksKept LinkRecovers AcksArrive
CHECK_DEADLOCK FALSE
