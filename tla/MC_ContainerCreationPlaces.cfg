CONSTANTS
  n1 = n1
  a = a
  Nodes = {n1, n2}
  Requests = {r1, r2, r3}
  Containers = {c1, c2, c3}
  Names = {a, b}
  NameOf <- Neither
  Port <- Neither
  HostMode = {}
  Memory <- Three
  Total <- Eight
  Slots <- OneOrNine
  Strategy = "spread"
  CreateRetry = 0
  Renamers = {}
  None = None
SPECIFICATION Spec
SYMMETRY Symmetry
INVARIANTS
  SlotsRespected
  MemoryRespected
CHECK_DEADLOCK FALSE
