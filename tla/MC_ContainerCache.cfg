CONSTANTS
  c1 = c1
  loop = loop
  monitor = monitor
  api = api
  Containers = {c1}
  Loop = loop
  Refreshers = {loop}
  Monitor = monitor
  Apis = {api}
  MaxVersion = 2
  Restarting = {1}
  AutoRemove = {c1}
  None = None
SPECIFICATION FairSpec
INVARIANTS
  CachedIsInspected
PROPERTIES
  LiveStays
  CatchesUp
