CONSTANTS
  None = None
  e1 = e1
  e2 = e2
  c1 = c1
  Engines = {e1, e2}
  Containers = {c1}
SPECIFICATION WatchSpec
SYMMETRY Symmetry
INVARIANTS NeverLost Rescheduled
