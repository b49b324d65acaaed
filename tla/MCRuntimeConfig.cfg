SPECIFICATION Spec
CONSTANTS
  Nets = {0, 1, 2}
  Rests = {"a", "b"}
  Absent = Absent
  Configs <- MCConfigs
  StartSettings <- MCStart
  Uploaders = {worker}
  Worker = worker
  MaxRevision = 2
  MaxPlain = 1
  MaxNested = 1
  MaxStatFails = 1
INVARIANTS NewestWins ResultKept ResultHasItsState
CHECK_DEADLOCK FALSE
