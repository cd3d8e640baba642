CONSTANTS
  Sessions = {s1, s2}
  Builds = {b1, b2, s2}
  Nodes = {n1, n2}
  Waiters = {w1, w2}
  None = None
  NetEngines = {f1, f2}
  Networks = {n}
  Nobody = Nobody
  Hosts = {h1, h2}
  Words = {"web", "db"}
  Names <- MCNames
  ConNames <- MCConNames
  NetIDs = {i1, i2}
  ConIDs = {i1, i2}
  SwarmIDs = {j1, j2}
  ListIDs = {1, 2, 3}
  Times <- MCTimes
  Nothing = Nothing
SPECIFICATION MCSpec
INVARIANTS
  SignalsArrive WaitersCounted RunningBuildFound
  ListsRight
  LookupsRight ListingRight
PROPERTY EverythingForgotten
