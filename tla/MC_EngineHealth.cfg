CONSTANTS
  Callers = {c1}
  Connectors = {v1}
  Requests = {"call"}
  Loop = loop
  FailureRetry = 2
  MaxFailures = 3
SPECIFICATION FairSpec
INVARIANTS
  HealthyBelowLimit
  ReconnectsMatchDisconnects
PROPERTIES
  StateFollowsEngine
