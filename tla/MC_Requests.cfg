CONSTANTS
  Nodes = {"n1", "n2"}
  OSTypes = {"linux", "windows"}
  TotalCpus = 2
  TotalMemory = 4
  FailureRetry = 3
  CreateRetry = 2
  None = None
  Nowhere = Nowhere
  NodeLabel <- MCNodeLabel
  NodeStates <- MCNodeStates
  Requests <- MCRequests
  Engines = {"e1", "e2"}
  MaxMatches <- MCMaxMatches
  Chunks = 2
  Containers = {c1, c2}
  Nets = {n1, n2}
  MaxRequests = 2
  NoAnswer = NoAnswer
  MaxAttempts = 2
  MaxBreaks = 3
  Clients = {k1, k2}
  QueueLimit = 2
  MaxEvents = 3
SPECIFICATION MCSpec
INVARIANTS
  TypesOK
  HardMet BestChosen ConfigSurvives
  ToldTheTruth
  KeepsFollowing
  NoGap
PROPERTIES Answered EndpointsReturn MonitoringStops CutOffEnds
CHECK_DEADLOCK FALSE
