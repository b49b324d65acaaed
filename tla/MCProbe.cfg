SPECIFICATION ProbeFairSpec
CONSTANTS
  None = None
  literal = literal
  name = name
  near = near
  far = far
  router = router
  tcp = tcp
  Tasks = {literal, name}
  Answers <- MCAnswers
  MaxHops <- MCMaxHops
  PathTo <- MCPathTo
  Strays <- MCStrays
  Pings = {tcp}
  PingType <- MCPingType
  Latencies = {100, 1100}
INVARIANTS HopsAreTheirs ArrivalIsTheEnd
PROPERTIES ProbesEnd
CHECK_DEADLOCK FALSE
