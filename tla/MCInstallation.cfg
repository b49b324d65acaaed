SPECIFICATION FairSpec
CONSTANTS
  Hosts <- MCHosts
  Releases <- MCReleases
  MaxFaults = 2
  MaxCrashes = 2
INVARIANTS AgentCanStart OneServes RemoteControlKept
PROPERTIES UpdatesAscend
CHECK_DEADLOCK FALSE
