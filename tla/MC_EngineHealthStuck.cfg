CONSTANTS
  Callers = {c1}
  Connectors = {v1}
  Requests = {"call", "info"}
  Loop = loop
  FailureRetry = 2
  MaxFailures = 3
SPECIFICATION Spec
INVARIANT NeverBlocksOnResumeCh
