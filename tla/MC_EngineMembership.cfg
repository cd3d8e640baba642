CONSTANTS
  a1 = a1
  h1 = h1
  h2 = h2
  o1 = o1
  o2 = o2
  v1 = v1
  v2 = v2
  Addrs = {a1}
  Hosts = {h1, h2}
  Objs = {o1, o2}
  Validators = {v1, v2}
  None = None
SPECIFICATION Spec
SYMMETRY Symmetry
CHECK_DEADLOCK FALSE
INVARIANTS
  AddrOnce
  ListedIsKnown
PROPERTY RegistrySpec
