SPECIFICATION FairSpec
CONSTANTS
  Nets = {0, 1, 2}
  Rests = {"a", "b"}
  Absent = Absent
  Configs <- MCSwitchOff
  StartSettings <- MCStart
  Uploaders = {worker, ticker}
  Worker = worker
  MaxRevision = 2
  MaxPlain = 0
  MaxNested = 0
  MaxStatFails = 1
PROPERTIES ResultArrives StateArrives StatisticsFollow
CHECK_DEADLOCK FALSE
