CONSTANTS
  n1 = n1
  a = a
  Nodes = {n1, n2}
  Requests = {r1, r2}
  Containers = {c1, c2}
  Names = {a, b}
  NameOf <- OneName
  Port <- Neither
  HostMode = {}
  Memory <- Three
  Total <- Eight
  Slots <- Nine
  Strategy = "binpack"
  CreateRetry = 1
  Renamers = {w}
  None = None
SPECIFICATION Spec
SYMMETRY Symmetry
INVARIANTS
  Accounted
  NameOnce
CHECK_DEADLOCK FALSE
