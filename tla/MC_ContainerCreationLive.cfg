CONSTANTS
  n1 = n1
  a = a
  Nodes = {n1}
  Requests = {r1, r2}
  Containers = {c1, c2}
  Names = {a, b}
  NameOf <- Neither
  Port <- OnePort
  HostMode = {}
  Memory <- Three
  Total <- Eight
  Slots <- Nine
  Strategy = "binpack"
  CreateRetry = 1
  Renamers = {}
  None = None
SPECIFICATION FairSpec
INVARIANT BridgePortOnce
PROPERTY RequestsEnd
CHECK_DEADLOCK FALSE
